---- MODULE Spec2Model ----
(***************************************************************************)
(* Verification model of mheers/pulumi-helper.                             *)
(*                                                                         *)
(* Part 1: the detailed-diff computation over JSON merge patches           *)
(* (convertPatchToDiff and patchConverter, src/mocks/provider/provider.go).*)
(***************************************************************************)
EXTENDS Integers, Sequences, FiniteSets, TLC

(***************************************************************************)
(* Dynamically typed values (Go interface{} holding decoded JSON).         *)
(* Every value is a record tagged with its Go type; the payload field has  *)
(* a different name for every type.  Strings are sequences of characters.  *)
(***************************************************************************)
Nil == [t |-> "nil"]

Str(chars) == [t |-> "string", s |-> chars]

Bool(b) == [t |-> "bool", b |-> b]

\* a Go int (reflect.Int): a number type that toFloat does not accept
GoInt(n) == [t |-> "int", n |-> n]

\* an int64 of magnitude mag[1] * 2^42 + mag[2] * 2^21 + mag[3]
Int64(neg, mag) == [t |-> "int64", neg |-> neg, mag |-> mag]

\* a float64 of magnitude mag (as for Int64) + half / 2
Float64(neg, mag, half) == [t |-> "float64", neg |-> neg, mag |-> mag, half |-> half]

\* map[string]interface{}: a function from keys (character sequences) to values
Map(f) == [t |-> "map", m |-> f]

\* []interface{}
Arr(seq) == [t |-> "slice", a |-> seq]

EmptyMap == Map(<<>>)

EmptyArr == Arr(<<>>)

IsMap(x) == x.t = "map"

IsArr(x) == x.t = "slice"

\* m[k] of a Go map: the zero value (nil) when the key is absent
Get(x, k) == IF k \in DOMAIN x.m THEN x.m[k] ELSE Nil

\* a path element: a string key or an int index
Key(chars) == [k |-> chars]

Idx(n) == [i |-> n]

IsKey(seg) == "k" \in DOMAIN seg

(***************************************************************************)
(* Numbers.  An int64 does not fit TLC's integers, so a magnitude is kept  *)
(* in three limbs of LimbBits bits; float64(int64) rounds it to            *)
(* MantissaBits significant bits, ties to even.                            *)
(***************************************************************************)
\* bits per limb of a magnitude (three limbs hold the 63 bits of an int64)
LimbBits == 21

\* significant bits of a float64
MantissaBits == 53

Limb == 2 ^ LimbBits

RECURSIVE BitLen(_)
BitLen(n) == IF n = 0 THEN 0 ELSE 1 + BitLen(n \div 2)

MagBits(m) ==
  IF m[1] > 0 THEN 2 * LimbBits + BitLen(m[1])
  ELSE IF m[2] > 0 THEN LimbBits + BitLen(m[2])
  ELSE BitLen(m[3])

Carry(m) ==
  LET c  == m[3] % Limb
      b0 == m[2] + (m[3] \div Limb)
      b  == b0 % Limb
      a  == m[1] + (b0 \div Limb)
  IN  <<a, b, c>>

\* the magnitude of float64(i) for an int64 of magnitude m
RoundMag(m) ==
  LET d == MagBits(m) - MantissaBits
  IN  IF d <= 0 THEN m
      ELSE LET unit == 2 ^ d
               r    == m[3] % unit
               q    == m[3] \div unit
               up   == (2 * r > unit) \/ (2 * r = unit /\ q % 2 = 1)
           IN  Carry(<<m[1], m[2], (q + (IF up THEN 1 ELSE 0)) * unit>>)

FloatOf(neg, mag, half) == [neg |-> neg, mag |-> mag, half |-> half]

\* toFloat of equalNumbers: (value, ok)
ToFloat(v) ==
  CASE v.t = "int64"   -> [ok |-> TRUE, f |-> FloatOf(v.neg, RoundMag(v.mag), 0)]
    [] v.t = "float64" -> [ok |-> TRUE, f |-> FloatOf(v.neg, v.mag, v.half)]
    [] OTHER           -> [ok |-> FALSE, f |-> FloatOf(FALSE, <<0, 0, 0>>, 0)]

\* reflect.DeepEqual on decoded JSON values: same type and same contents
DeepEqual(a, b) == a = b

\* reflect.TypeOf(x).Kind()
KindOf(x) == x.t

\* (mutant: values of different kinds are never equal)
EqualNumbersSameKind(a, b) == KindOf(a) = KindOf(b) /\ DeepEqual(a, b)

EqualNumbers(a, b) ==
  IF KindOf(a) = KindOf(b) THEN DeepEqual(a, b)
  ELSE LET fa == ToFloat(a)
           fb == ToFloat(b)
       IN  fa.ok /\ fb.ok /\ fa.f = fb.f

(***************************************************************************)
(* Path rendering (addPatchValueToDiff, the pathStr loop).                 *)
(***************************************************************************)
ReservedChars == {".", "\"", "[", "]"}

\* strings.ContainsAny(s, chars)
ContainsAny(s, chars) == \E n \in 1..Len(s) : s[n] \in chars

\* (mutant: the quotes of a key are not escaped)
EscapeQuotesNot(s) == s

\* strings.ReplaceAll(s, `"`, `\"`)
RECURSIVE EscapeQuotes(_)
EscapeQuotes(s) ==
  IF s = <<>> THEN <<>>
  ELSE (IF Head(s) = "\"" THEN <<"\\", "\"">> ELSE <<Head(s)>>) \o EscapeQuotes(Tail(s))

Digit(n) == <<"0", "1", "2", "3", "4", "5", "6", "7", "8", "9">>[n + 1]

\* fmt's %d of a non-negative int
RECURSIVE Itoa(_)
Itoa(n) == IF n < 10 THEN <<Digit(n)>> ELSE Itoa(n \div 10) \o <<Digit(n % 10)>>

\* one iteration of the pathStr loop
AppendSegment(pathStr, seg) ==
  IF IsKey(seg)
  THEN IF ContainsAny(seg.k, ReservedChars)
       THEN pathStr \o <<"[", "\"">> \o EscapeQuotes(seg.k) \o <<"\"", "]">>
       ELSE IF pathStr # <<>>
            THEN pathStr \o <<".">> \o seg.k
            ELSE seg.k
  ELSE pathStr \o <<"[">> \o Itoa(seg.i) \o <<"]">>

RECURSIVE RenderFrom(_, _)
RenderFrom(pathStr, path) ==
  IF path = <<>> THEN pathStr
  ELSE RenderFrom(AppendSegment(pathStr, Head(path)), Tail(path))

PathStr(path) == RenderFrom(<<>>, path)

(***************************************************************************)
(* makePatchSlice: the single-path document handed to the force-new query. *)
(***************************************************************************)
RECURSIVE MakePatchSlice(_, _)
MakePatchSlice(path, v) ==
  IF path = <<>> THEN v
  ELSE IF IsKey(Head(path))
       THEN Map((Head(path).k) :> MakePatchSlice(Tail(path), v))
       ELSE Arr(<<MakePatchSlice(Tail(path), v)>>)

(***************************************************************************)
(* The force-new query, openapi.PatchPropertiesChanged.  It belongs to an  *)
(* imported package; it is modelled by its interface: a pattern is a       *)
(* sequence of keys and array selectors, it matches a document that holds  *)
(* a value along it, and the query fails on the documents of failDocs.     *)
(***************************************************************************)
VARIABLES
  patch,          \* convertPatchToDiff's arguments
  oldLiveState,
  newInputs,
  oldInputs,
  forceNew,
  failDocs,       \* the documents on which the force-new query returns an error
  status,         \* "init", "running", "ok", "error" (returned err) or "panic"
  stack,          \* the active addPatchMapToDiff / addPatchArrayToDiff calls
  diff,           \* pc.diff
  calls,          \* history: every addPatchValueToDiff call and what it did
  first           \* history: what an earlier call with the same arguments returned

\* package stack (crypt.go)
VARIABLES
  build,          \* which of the two versions of crypt.go is built
  env,            \* the environment variable PULUMI_CONFIG_PASSPHRASE
  crypter,        \* the package variable crypter / secretsManager
  ops             \* history: the calls made in this process, with their results

\* package workspace (workspaces.go)
VARIABLES
  file,           \* the argument of getWorkspaceNameAndHashFromFile
  got             \* what the call returned, NotCalled before it

\* package helpers (mergex: stringmerge.go and the generic merge)
VARIABLES
  variant,        \* "string": StringMergeArray, "generic": MergeArray[K, V];
                  \* "merge": StringMergeArray of the package in src/merge
  sma,            \* the receiver of Merge
  resolved,       \* how the Key output of each element resolves: "known",
                  \* "nil" (to a nil pointer), "unknown" (never) or "error"
  merged          \* what Merge returned, NotMerged before it

\* package random (random.go)
VARIABLES
  minLength,      \* the arguments of Password
  maxLength,
  password        \* what Password returned, NoPassword before it

\* the provider's StreamInvoke handlers and Cancel (provider.go)
VARIABLES
  clusterUnreachable, \* k.clusterUnreachable
  tok,            \* the invoked function: "list", "watch" or "podLogs"
  listed,         \* list.Items, or the lines of the pod's log
  handler,        \* where the handler is: "idle", "select" or "returned"
  ret,            \* what the handler returned: "none", "nil" or "err"
  producer,       \* the handler's goroutine: "none", "objects" (at the send
                  \* on objects / logLines), "done" (at the send on done),
                  \* "exited" or "panic"
  next,           \* the goroutine's position in the items
  sent,           \* the responses passed to server.Send, in order
  canceled,       \* k.canceler.context is done
  clientDone,     \* server.Context() is done
  watchStopped,   \* watch.Stop() was called
  cancels         \* history: the number of Cancel calls

\* the provider's cache of resource schemas (provider.go, getResources)
VARIABLES
  resources,      \* k.resources: 0 is nil, n the result of the n-th fetch
  fetches,        \* history: the fetches of the schemas that succeeded
  at,             \* where each caller of getResources is
  rs,             \* each caller's local rs, then what it returned
  invalidated     \* history: invalidateResources was called

\* the provider's settings (provider.go, Configure)
VARIABLES
  flags,          \* the boolean fields of k that Configure sets
  environ,        \* the environment variables of the process
  configured      \* history: the variables of the latest successful request,
                  \* and whether a request has failed

\* legacyInitialAPIVersion (provider.go)
VARIABLES
  oldConfig,      \* the annotations of the arguments
  newConfig,
  legacy          \* the annotations of the returned config, NotReturned before

\* no earlier call has returned
NoResult == [status |-> "none", diff |-> <<>>]

inputs == <<patch, oldLiveState, newInputs, oldInputs, forceNew, failDocs>>

providerVars == <<patch, oldLiveState, newInputs, oldInputs, forceNew, failDocs,
                  status, stack, diff, calls, first>>

stackVars == <<build, env, crypter, ops>>

workspaceVars == <<file, got>>

mergexVars == <<variant, sma, resolved, merged>>

randomVars == <<minLength, maxLength, password>>

streamVars == <<clusterUnreachable, tok, listed, handler, ret, producer, next,
                sent, canceled, clientDone, watchStopped, cancels>>

cacheVars == <<resources, fetches, at, rs, invalidated>>

configVars == <<flags, environ, configured>>

legacyVars == <<oldConfig, newConfig, legacy>>

\* the variables of the provider's handlers modelled apart from the diff
kubeVars == <<streamVars, cacheVars, configVars, legacyVars>>

\* the variables of the packages other than the provider
otherPackages == <<stackVars, workspaceVars, mergexVars, randomVars, kubeVars>>

outsideStack == <<providerVars, workspaceVars, mergexVars, randomVars, kubeVars>>

outsideWorkspace == <<providerVars, stackVars, mergexVars, randomVars, kubeVars>>

outsideMergex == <<providerVars, stackVars, workspaceVars, randomVars, kubeVars>>

outsideRandom == <<providerVars, stackVars, workspaceVars, mergexVars, kubeVars>>

\* the variables of the diff and of the packages beside the provider
packages == <<providerVars, stackVars, workspaceVars, mergexVars, randomVars>>

outsideStream == <<packages, cacheVars, configVars, legacyVars>>

outsideCache == <<packages, streamVars, configVars, legacyVars>>

outsideConfig == <<packages, streamVars, cacheVars, legacyVars>>

outsideLegacy == <<packages, streamVars, cacheVars, configVars>>

vars == <<providerVars, stackVars, workspaceVars, mergexVars, randomVars, kubeVars>>

\* a salt string "v1:<salt>:<verifier>": the salt bytes and the passphrase the
\* verifier was sealed under
Salt(bytes, pp) == [bytes |-> bytes, pp |-> pp]

\* no key: the key of no crypter
NoKey == [pp |-> "", salt |-> Salt("", "")]

\* var crypter config.Crypter, var secretsManager secrets.Manager: nil
NoCrypter == [key |-> NoKey]

\* package stack before any call
StackIdle ==
  /\ build = "crypter"
  /\ env = ""
  /\ crypter = NoCrypter
  /\ ops = <<>>

NotCalled == [res |-> "none", name |-> <<>>, hash |-> <<>>]

\* package workspace before any call
WorkspaceIdle ==
  /\ file = <<>>
  /\ got = NotCalled

NotMerged == [res |-> "none", entries |-> <<>>]

\* package helpers before any call
MergexIdle ==
  /\ variant = "string"
  /\ sma = <<>>
  /\ resolved = <<>>
  /\ merged = NotMerged

NoPassword == [res |-> "none", str |-> <<>>]

\* package random before any call
RandomIdle ==
  /\ minLength = 0
  /\ maxLength = 0
  /\ password = NoPassword

\* no StreamInvoke and no Cancel yet
StreamIdle ==
  /\ clusterUnreachable = FALSE /\ tok = "list" /\ listed = <<>>
  /\ handler = "idle" /\ ret = "none" /\ producer = "none" /\ next = 1
  /\ sent = <<>> /\ canceled = FALSE /\ clientDone = FALSE
  /\ watchStopped = FALSE /\ cancels = 0

\* the goroutines that call getResources
Callers == {"c1", "c2", "c3"}

\* k.resources is nil and getResources has no caller
CacheIdle ==
  /\ resources = 0 /\ fetches = 0 /\ invalidated = FALSE
  /\ at = [c \in Callers |-> "idle"]
  /\ rs = [c \in Callers |-> 0]

\* the boolean fields of KubeProvider that Configure sets
Settings == {"deleteUnreachable", "enableDryRun", "serverSideApplyMode",
             "enableConfigMapMutable", "suppressDeprecationWarnings",
             "suppressHelmHookWarnings"}

\* a variable that the request or the environment does not hold
Absent == "absent"

\* no successful request yet
NoRequest == [ok |-> FALSE, failed |-> FALSE, vars |-> [s \in Settings |-> Absent]]

\* makeKubeProvider: the fields are false, Configure was not called
ConfigIdle ==
  /\ flags = [s \in Settings |-> FALSE]
  /\ environ = [s \in Settings |-> Absent]
  /\ configured = NoRequest

\* config.GetAnnotations() is nil or empty: annotations are a set of
\* <<key, value>> with one value per key
NoAnnotations == {}

NotReturned == [res |-> "none", annotations |-> {}]

LegacyIdle ==
  /\ oldConfig = NoAnnotations /\ newConfig = NoAnnotations /\ legacy = NotReturned

\* the provider's other handlers before any call
KubeIdle == StreamIdle /\ CacheIdle /\ ConfigIdle /\ LegacyIdle

\* the other packages before any call
OthersIdle == StackIdle /\ WorkspaceIdle /\ MergexIdle /\ RandomIdle /\ KubeIdle

\* array selector of a pattern: [*]
Wild == [w |-> "*"]

IsWild(seg) == "w" \in DOMAIN seg

RECURSIVE PatternMatches(_, _)
PatternMatches(doc, pat) ==
  IF pat = <<>> THEN TRUE
  ELSE LET seg == Head(pat)
       IN  IF IsKey(seg)
           THEN /\ IsMap(doc)
                /\ seg.k \in DOMAIN doc.m
                /\ PatternMatches(doc.m[seg.k], Tail(pat))
           ELSE /\ IsArr(doc)
                /\ \E n \in 1..Len(doc.a) :
                     /\ IsWild(seg) \/ seg.i = n - 1
                     /\ PatternMatches(doc.a[n], Tail(pat))

PatchPropertiesChanged(doc, patterns) ==
  [err     |-> doc \in failDocs,
   matches |-> SelectSeq(patterns, LAMBDA pat : PatternMatches(doc, pat))]

\* (mutant: the assertion of the doc comment, on the two values only)
AssertHoldsValuesOnly(v, old, oldInput) == v # Nil \/ old # Nil

(***************************************************************************)
(* addPatchValueToDiff, as pure steps.                                     *)
(***************************************************************************)
\* contract.Assertf at the entry
AssertHolds(v, old, oldInput) == v # Nil \/ old # Nil \/ oldInput # Nil

\* (mutants of the early return: it forgets the patched value; it forgets the
\* old input)
NoInputDiffIgnoringValue(v, newInput, oldInput) == newInput = Nil /\ oldInput = Nil

NoInputDiffAlways(v, newInput, oldInput) == newInput = Nil

\* the early return: no new input, and not a delete of an old input
NoInputDiff(v, newInput, oldInput) == newInput = Nil /\ (v # Nil \/ oldInput = Nil)

\* diffKind, inputDiff = DELETE, true
DeleteDiffNoInput == [tag |-> "diff", kind |-> "DELETE", inputDiff |-> FALSE]

DeleteDiff == [tag |-> "diff", kind |-> "DELETE", inputDiff |-> TRUE]

AddDiff == [tag |-> "diff", kind |-> "ADD", inputDiff |-> FALSE]

UpdateDiff == [tag |-> "diff", kind |-> "UPDATE", inputDiff |-> FALSE]

\* no entry at this node: recursion into a map or an array, or equal primitives
Recurse(into) == [tag |-> into, kind |-> "", inputDiff |-> FALSE]

\* (mutant: primitives are never found equal)
EqualPrimitivesNever(v, old) == FALSE

\* the test of the default case: reflect.DeepEqual(v, old) || equalNumbers(v, old)
EqualPrimitives(v, old) == DeepEqual(v, old) \/ EqualNumbers(v, old)

\* the classification: what to do with a node that is not suppressed
Classify(v, old) ==
  IF v = Nil THEN DeleteDiff
  ELSE IF old = Nil THEN AddDiff
  ELSE IF IsMap(v)
       THEN IF IsMap(old) THEN Recurse("map") ELSE UpdateDiff
  ELSE IF IsArr(v)
       THEN IF IsArr(old) THEN Recurse("slice") ELSE UpdateDiff
  ELSE IF EqualPrimitives(v, old)
       THEN Recurse("equal")
       ELSE UpdateDiff

\* (mutant: the switch has no case for DELETE)
EscalateNoDelete(diffKind, matches) ==
  IF Len(matches) # 0
  THEN CASE diffKind = "ADD"    -> "ADD_REPLACE"
         [] diffKind = "UPDATE" -> "UPDATE_REPLACE"
         [] OTHER               -> diffKind
  ELSE diffKind

\* the switch that turns a kind into its _REPLACE variant
Escalate(diffKind, matches) ==
  IF Len(matches) # 0
  THEN CASE diffKind = "ADD"    -> "ADD_REPLACE"
         [] diffKind = "DELETE" -> "DELETE_REPLACE"
         [] diffKind = "UPDATE" -> "UPDATE_REPLACE"
         [] OTHER               -> diffKind
  ELSE diffKind

\* What one call of addPatchValueToDiff does, before any recursion:
\*   "panic"      the assertion fails
\*   "suppressed" the early return
\*   "equal"      equal primitives, nothing recorded
\*   "map", "slice"  recursion into addPatchMapToDiff / addPatchArrayToDiff
\*   "error"      the force-new query failed
\*   "recorded"   pc.diff[pathStr] is set
AddPatchValueToDiff(path, v, old, newInput, oldInput) ==
  LET none == [tag |-> "", kind |-> "", inputDiff |-> FALSE, pathStr |-> <<>>]
  IN  IF ~AssertHolds(v, old, oldInput) THEN [none EXCEPT !.tag = "panic"]
      ELSE IF NoInputDiff(v, newInput, oldInput) THEN [none EXCEPT !.tag = "suppressed"]
      ELSE LET c == Classify(v, old)
           IN  IF c.tag # "diff" THEN [none EXCEPT !.tag = c.tag]
               ELSE LET q == PatchPropertiesChanged(MakePatchSlice(path, v), forceNew)
                    IN  IF q.err THEN [none EXCEPT !.tag = "error"]
                        ELSE [tag       |-> "recorded",
                              kind      |-> Escalate(c.kind, q.matches),
                              inputDiff |-> c.inputDiff,
                              pathStr   |-> PathStr(path)]

(***************************************************************************)
(* The recursion.  A frame is one active call of addPatchMapToDiff or      *)
(* addPatchArrayToDiff with its loop position; a step is one iteration of  *)
(* the innermost loop, that is one call of addPatchValueToDiff.  A Go map  *)
(* is ranged over in an unspecified order: any remaining key may be next.  *)
(***************************************************************************)
\* (mutant: the second loop runs outside arrays too)
OldOnlyKeysAlways(m, old, inArray) == {k \in DOMAIN old.m : k \notin DOMAIN m.m}

\* the keys of the second loop of addPatchMapToDiff
OldOnlyKeys(m, old, inArray) ==
  IF inArray THEN {k \in DOMAIN old.m : k \notin DOMAIN m.m} ELSE {}

\* len(m) of a map that may be nil
LenMap(x) == IF IsMap(x) THEN Cardinality(DOMAIN x.m) ELSE 0

\* a nil map argument is replaced by an empty map
OrEmptyMap(x) == IF IsMap(x) THEN x ELSE EmptyMap

\* a failed type assertion x.([]interface{}) leaves a nil slice
OrEmptyArr(x) == IF IsArr(x) THEN x ELSE EmptyArr

\* (mutant: an index beyond the array yields the last element)
AtClamped(arr, i) ==
  IF i < Len(arr.a) THEN arr.a[i + 1]
  ELSE IF Len(arr.a) > 0 THEN arr.a[Len(arr.a)] ELSE Nil

\* the closure `at` of addPatchArrayToDiff (i counts from 0)
At(arr, i) == IF i < Len(arr.a) THEN arr.a[i + 1] ELSE Nil

MapFrame(path, m, old, newInput, oldInput, inArray) ==
  [f        |-> "map",
   path     |-> path,
   v        |-> m,
   old      |-> old,
   newInput |-> OrEmptyMap(newInput),
   oldInput |-> OrEmptyMap(oldInput),
   inArray  |-> inArray,
   todo     |-> DOMAIN m.m,
   todoOld  |-> OldOnlyKeys(m, old, inArray),
   i        |-> 0]

ArrayFrame(path, a, old, newInput, oldInput, inArray) ==
  [f        |-> "slice",
   path     |-> path,
   v        |-> a,
   old      |-> old,
   newInput |-> OrEmptyArr(newInput),
   oldInput |-> OrEmptyArr(oldInput),
   inArray  |-> inArray,
   todo     |-> {},
   todoOld  |-> {},
   i        |-> 0]

Top == stack[Len(stack)]

\* the stack with its top frame replaced
WithTop(fr) == [stack EXCEPT ![Len(stack)] = fr]

\* pc.diff[pathStr] = &PropertyDiff{Kind, InputDiff}
Put(d, pathStr, e) ==
  [x \in DOMAIN d \cup {pathStr} |-> IF x = pathStr THEN e ELSE d[x]]

\* One call addPatchValueToDiff(path, v, old, newInput, oldInput, inArray) made
\* from the top frame, which continues as `rest` when the call returns nil.
Call(rest, path, v, old, newInput, oldInput, inArray) ==
  LET o == AddPatchValueToDiff(path, v, old, newInput, oldInput)
  IN  /\ calls' = calls \cup
                    {[path |-> path, v |-> v, old |-> old, newInput |-> newInput,
                      oldInput |-> oldInput, inArray |-> inArray, outcome |-> o.tag,
                      kind |-> o.kind, inputDiff |-> o.inputDiff, pathStr |-> o.pathStr]}
      /\ status' = CASE o.tag = "panic" -> "panic"
                     [] o.tag = "error" -> "error"
                     [] OTHER           -> "running"
      /\ stack' = CASE o.tag \in {"panic", "error"} -> <<>>
                    [] o.tag = "map" ->
                         Append(rest, MapFrame(path, v, old, newInput, oldInput, inArray))
                    [] o.tag = "slice" ->
                         Append(rest, ArrayFrame(path, v, old, newInput, oldInput, inArray))
                    [] OTHER -> rest
      /\ diff' = IF o.tag = "recorded"
                 THEN Put(diff, o.pathStr, [Kind |-> o.kind, InputDiff |-> o.inputDiff])
                 ELSE diff
      /\ UNCHANGED <<inputs, first, otherPackages>>

\* (mutant: a violated precondition is returned as an error value)
ConvertPatchToDiffReturnsError ==
  /\ status = "init"
  /\ IF LenMap(patch) = 0 \/ oldLiveState = Nil
     THEN /\ status' = "error"
          /\ stack' = <<>>
     ELSE /\ status' = "running"
          /\ stack' = <<MapFrame(<<>>, patch, oldLiveState, newInputs, oldInputs, FALSE)>>
  /\ UNCHANGED <<inputs, diff, calls, first, otherPackages>>

\* convertPatchToDiff up to its call of addPatchMapToDiff
ConvertPatchToDiff ==
  /\ status = "init"
  /\ IF LenMap(patch) = 0 \/ oldLiveState = Nil
     THEN /\ status' = "panic"
          /\ stack' = <<>>
     ELSE /\ status' = "running"
          /\ stack' = <<MapFrame(<<>>, patch, oldLiveState, newInputs, oldInputs, FALSE)>>
  /\ UNCHANGED <<inputs, diff, calls, first, otherPackages>>

\* addPatchMapToDiff, first loop: for k, v := range m
MapPatchKey ==
  /\ status = "running"
  /\ Top.f = "map"
  /\ \E k \in Top.todo :
       Call(WithTop([Top EXCEPT !.todo = @ \ {k}]),
            Append(Top.path, Key(k)),
            Top.v.m[k], Get(Top.old, k), Get(Top.newInput, k), Get(Top.oldInput, k),
            Top.inArray)

\* addPatchMapToDiff, second loop: for k, v := range old, keys not in m
MapOldKey ==
  /\ status = "running"
  /\ Top.f = "map"
  /\ Top.todo = {}
  /\ \E k \in Top.todoOld :
       Call(WithTop([Top EXCEPT !.todoOld = @ \ {k}]),
            Append(Top.path, Key(k)),
            Nil, Top.old.m[k], Get(Top.newInput, k), Get(Top.oldInput, k),
            Top.inArray)

\* addPatchArrayToDiff, first loop: the indices both arrays have
ArrayPair ==
  /\ status = "running"
  /\ Top.f = "slice"
  /\ Top.i < Len(Top.v.a) /\ Top.i < Len(Top.old.a)
  /\ Call(WithTop([Top EXCEPT !.i = @ + 1]),
          Append(Top.path, Idx(Top.i)),
          Top.v.a[Top.i + 1], Top.old.a[Top.i + 1],
          At(Top.newInput, Top.i), At(Top.oldInput, Top.i), TRUE)

\* addPatchArrayToDiff, the patched array is longer: additions
ArrayAdd ==
  /\ status = "running"
  /\ Top.f = "slice"
  /\ Top.i >= Len(Top.old.a) /\ Top.i < Len(Top.v.a)
  /\ Call(WithTop([Top EXCEPT !.i = @ + 1]),
          Append(Top.path, Idx(Top.i)),
          Top.v.a[Top.i + 1], Nil,
          At(Top.newInput, Top.i), At(Top.oldInput, Top.i), TRUE)

\* (mutant of ArrayDelete: a removed element is compared as an empty map, so
\* that its keys are deleted one by one)
ArrayDeleteKeys ==
  /\ status = "running"
  /\ Top.f = "slice"
  /\ Top.i >= Len(Top.v.a) /\ Top.i < Len(Top.old.a)
  /\ Call(WithTop([Top EXCEPT !.i = @ + 1]),
          Append(Top.path, Idx(Top.i)),
          IF IsMap(Top.old.a[Top.i + 1]) THEN EmptyMap ELSE Nil, Top.old.a[Top.i + 1],
          At(Top.newInput, Top.i), At(Top.oldInput, Top.i), TRUE)

\* addPatchArrayToDiff, the old array is longer: deletions
ArrayDelete ==
  /\ status = "running"
  /\ Top.f = "slice"
  /\ Top.i >= Len(Top.v.a) /\ Top.i < Len(Top.old.a)
  /\ Call(WithTop([Top EXCEPT !.i = @ + 1]),
          Append(Top.path, Idx(Top.i)),
          Nil, Top.old.a[Top.i + 1],
          At(Top.newInput, Top.i), At(Top.oldInput, Top.i), TRUE)

FrameDone(fr) ==
  IF fr.f = "map" THEN fr.todo = {} /\ fr.todoOld = {}
  ELSE fr.i >= Len(fr.v.a) /\ fr.i >= Len(fr.old.a)

\* return nil of addPatchMapToDiff / addPatchArrayToDiff; the outermost return
\* is that of convertPatchToDiff, with pc.diff
Return ==
  /\ status = "running"
  /\ FrameDone(Top)
  /\ stack' = SubSeq(stack, 1, Len(stack) - 1)
  /\ status' = IF Len(stack) = 1 THEN "ok" ELSE "running"
  /\ UNCHANGED <<inputs, diff, calls, first, otherPackages>>

(***************************************************************************)
(* The inputs the computation is run on.                                   *)
(***************************************************************************)
\* longest array of the array scenarios
MaxLen == 2

\* longest path of the path scenarios
MaxPathLen == 3

\* largest array index of the path scenarios
MaxIdx == 1

kA == <<"a">>

kB == <<"b">>

kC == <<"c">>

kM == <<"m">>

kEmpty == <<>>

kDot == <<"a", ".", "b">>

kQuote == <<"q", "\"">>

kBracket == <<"[", "0", "]">>

kBackslash == <<"\\">>

kItems == <<"i", "t", "e", "m", "s">>

kName == <<"n", "a", "m", "e">>

kMetadata == <<"m", "e", "t", "a", "d", "a", "t", "a">>

kAnnotations == <<"a", "n", "n", "o", "t", "a", "t", "i", "o", "n", "s">>

kLastApplied == <<"k", "u", "b", "e", "c", "t", "l", ".", "k", "u", "b", "e", "r", "n", "e", "t", "e", "s", ".", "i", "o", "/", "l", "a", "s", "t", "-", "a", "p", "p", "l", "i", "e", "d", "-", "c", "o", "n", "f", "i", "g", "u", "r", "a", "t", "i", "o", "n">>

Small(n) == Int64(FALSE, <<0, 0, n>>)

I1 == Small(1)

I2 == Small(2)

I3 == Small(3)

I4 == Small(4)

F3 == Float64(FALSE, <<0, 0, 3>>, 0)

\* 2^53, 2^53 + 1, 2^53 + 2, 2^53 + 3 as int64; 2^53 and 2^53 + 4 as float64
Big(n) == Int64(FALSE, <<2048, 0, n>>)

FBig(n) == Float64(FALSE, <<2048, 0, n>>, 0)

\* 2^63 - 1, the largest int64, and 2^63 as float64
MaxInt64 == Int64(FALSE, <<Limb - 1, Limb - 1, Limb - 1>>)

F2p63 == Float64(FALSE, <<Limb, 0, 0>>, 0)

One(k, x) == Map(k :> x)

Two(k1, x1, k2, x2) == Map((k1 :> x1) @@ (k2 :> x2))

\* the map {k: x}, without the key when x is nil
Opt(k, x) == IF x = Nil THEN EmptyMap ELSE One(k, x)

M1 == One(kB, I3)

M2 == Two(kB, I3, kC, I4)

Scenario(p, o, n, i, fn, fd) ==
  [patch |-> p, oldLiveState |-> o, newInputs |-> n, oldInputs |-> i,
   forceNew |-> fn, failDocs |-> fd]

\* --- one node (v, old, newInput, oldInput) under a key, as an array element,
\* --- and under a key of a map that is an array element
Wrappers == {"key", "elem", "deep"}

Wrap(w, x) ==
  CASE w = "key"  -> Opt(kA, x)
    [] w = "elem" -> One(kA, Arr(IF x = Nil THEN <<>> ELSE <<x>>))
    [] w = "deep" -> One(kA, Arr(<<Opt(kM, x)>>))

\* a nil patched value is a key that is absent or an explicit null
WrapPatch(w, v) ==
  IF v # Nil THEN {Wrap(w, v)}
  ELSE CASE w = "key"  -> {One(kA, Nil)}
         [] w = "elem" -> {One(kA, Arr(<<>>)), One(kA, Arr(<<Nil>>))}
         [] w = "deep" -> {One(kA, Arr(<<EmptyMap>>)), One(kA, Arr(<<One(kM, Nil)>>))}

\* nil inputs at the top level are nil maps
WrapInput(w, x) == IF w = "key" /\ x = Nil THEN Nil ELSE Wrap(w, x)

NodeValues == {Nil, I3, I4, F3, M1, M2}

NodeNewInputs == {Nil, I3, M1}

NodeOldInputs == {Nil, I3, M2}

PatAB == <<Key(kA), Key(kB)>>

PatElem == <<Key(kA), Idx(0)>>

PatDeep == <<Key(kA), Wild, Key(kM)>>

PatNone == <<Key(kC)>>

PatB == <<Key(kB)>>

NodeForceNew == {<<>>, <<PatAB>>, <<PatNone, PatElem>>, <<PatDeep, PatAB>>}

NodeScenarios ==
  {Scenario(p, Wrap(w, o), Wrap(w, n), WrapInput(w, i), fn, {}) :
     <<w, p, o, n, i, fn>> \in
       UNION {{w} \X WrapPatch(w, v) \X NodeValues \X NodeNewInputs \X NodeOldInputs
                \X NodeForceNew : w \in Wrappers, v \in NodeValues}}

\* --- numbers and other primitives at a leaf with a declared input
NumberValues ==
  {I3, I4, F3, Float64(FALSE, <<0, 0, 3>>, 1), Float64(FALSE, <<0, 0, 4>>, 0),
   Int64(TRUE, <<0, 0, 3>>), Float64(TRUE, <<0, 0, 3>>, 0),
   Big(0), Big(1), Big(2), Big(3), FBig(0), FBig(2), FBig(4), MaxInt64, F2p63,
   GoInt(3), Str(<<"3">>), Bool(TRUE)}

NumberScenarios ==
  {Scenario(Wrap(w, v), Wrap(w, o), Wrap(w, I3), Nil, <<>>, {}) :
     <<w, v, o>> \in {"key", "elem"} \X NumberValues \X NumberValues}

\* --- two keys, and a force-new query that may fail on one of the documents
TwoKeyScenarios ==
  {Scenario(Two(kA, v1, kB, v2), Two(kA, o1, kB, I3), Two(kA, I4, kB, I4), i, fn, fd) :
     <<v1, v2, o1, i, fn, fd>> \in
       UNION {{v1} \X {v2} \X {I3, I4} \X {Nil, Two(kA, I3, kB, I3)} \X {<<>>, <<PatB>>}
                \X {{}, {One(kA, v1)}, {One(kB, v2)}} :
              v1 \in {I4, Nil}, v2 \in {I4, M1}}}

\* --- arrays of maps of different lengths
Elements == {One(kA, I1), One(kB, I2), Two(kA, I2, kB, I2)}

Arrays == {Arr(a) : a \in UNION {[1..n -> Elements] : n \in 0..MaxLen}}

ArrayScenarios ==
  {Scenario(One(kA, p), One(kA, o), n, i, fn, {}) :
     <<p, o, n, i, fn>> \in
       UNION {{p} \X {o} \X {One(kA, p), One(kA, o), EmptyMap} \X {One(kA, o), EmptyMap}
                \X {<<>>, <<PatElem>>} :
              p \in Arrays, o \in Arrays}}

\* --- paths of keys and indices: an update of the leaf at the end of a path
PathKeys == {kA, kEmpty, kDot, kQuote, kBracket, kBackslash}

Segments == {Key(k) : k \in PathKeys} \cup {Idx(n) : n \in 0..MaxIdx}

ExamplePaths ==
  {<<Key(kItems), Idx(0), Key(kName)>>,
   <<Key(kMetadata), Key(kAnnotations), Key(kLastApplied)>>,
   <<Key(kItems), Idx(10)>>}

Paths ==
  ExamplePaths \cup
  {p \in UNION {[1..n -> Segments] : n \in 1..MaxPathLen} : IsKey(p[1])}

\* the tree that holds `leaf` at the end of `path`; the array elements before an
\* index are filled with `fill`
RECURSIVE Nest(_, _, _)
Nest(path, leaf, fill) ==
  IF path = <<>> THEN leaf
  ELSE IF IsKey(Head(path))
       THEN One(Head(path).k, Nest(Tail(path), leaf, fill))
       ELSE Arr([n \in 1..(Head(path).i + 1) |->
                   IF n = Head(path).i + 1 THEN Nest(Tail(path), leaf, fill) ELSE fill])

PathScenarios ==
  {Scenario(Nest(p, I4, I3), Nest(p, I3, I3), Nest(p, I4, I3), Nest(p, I3, I3), <<>>, {}) :
     p \in Paths}

\* --- the preconditions of convertPatchToDiff
ContractScenarios ==
  {Scenario(p, o, n, Nil, <<>>, {}) :
     <<p, o, n>> \in {Nil, EmptyMap, One(kA, I4)} \X {Nil, EmptyMap, One(kA, I3)}
                       \X {Nil, One(kA, I4)}}

\* --- an empty key beside a key of its map: paths <<"", b>> and <<b>>
EmptyKeyScenarios ==
  {Scenario(Two(kEmpty, One(kB, v1), kB, v2), Two(kEmpty, One(kB, I3), kB, I3),
            Two(kEmpty, One(kB, I4), kB, I4), Two(kEmpty, One(kB, I3), kB, I3), <<>>, {}) :
     <<v1, v2>> \in {I3, I4} \X {I3, I4, Nil}}

Scenarios ==
  NodeScenarios \cup NumberScenarios \cup TwoKeyScenarios \cup ArrayScenarios
    \cup PathScenarios \cup ContractScenarios \cup EmptyKeyScenarios

Init ==
  /\ \E s \in Scenarios :
       /\ patch = s.patch
       /\ oldLiveState = s.oldLiveState
       /\ newInputs = s.newInputs
       /\ oldInputs = s.oldInputs
       /\ forceNew = s.forceNew
       /\ failDocs = s.failDocs
  /\ status = "init"
  /\ stack = <<>>
  /\ diff = <<>>
  /\ calls = {}
  /\ first = NoResult
  /\ OthersIdle

Next ==
  \/ ConvertPatchToDiff
  \/ MapPatchKey
  \/ MapOldKey
  \/ ArrayPair
  \/ ArrayAdd
  \/ ArrayDelete
  \/ Return

Spec == Init /\ [][Next]_vars

\* convertPatchToDiff is called once more with the same arguments, after a
\* call that returned: its result is kept in `first`, the converter is new
CallAgain ==
  /\ status \in {"ok", "error"}
  /\ first = NoResult
  /\ first' = [status |-> status, diff |-> diff]
  /\ status' = "init"
  /\ stack' = <<>>
  /\ diff' = <<>>
  /\ calls' = {}
  /\ UNCHANGED <<inputs, otherPackages>>

RepeatNext == Next \/ CallAgain

RepeatSpec == Init /\ [][RepeatNext]_vars

(***************************************************************************)
(* Properties.                                                             *)
(***************************************************************************)
Recorded == {c \in calls : c.outcome = "recorded"}

\* path p is a proper prefix of path q
Above(p, q) == Len(p) < Len(q) /\ SubSeq(q, 1, Len(p)) = p

DeleteKinds == {"DELETE", "DELETE_REPLACE"}

AddKinds == {"ADD", "ADD_REPLACE"}

UpdateKinds == {"UPDATE", "UPDATE_REPLACE"}

ReplaceKinds == {"ADD_REPLACE", "DELETE_REPLACE", "UPDATE_REPLACE"}

\* a node with no new input that is not the delete of an old input
Undeclared(c) == c.newInput = Nil /\ (c.v # Nil \/ c.oldInput = Nil)

\* C1: a node with no new input, whose patched value is non-nil or whose old
\* input is nil, records nothing, and nothing below it is visited or recorded;
\* every entry of the diff comes from a node with a new input, or from a node
\* with a nil patched value and an old input.
C1_Suppression ==
  /\ \A c \in calls :
       Undeclared(c) =>
         /\ c.outcome \in {"suppressed", "panic"}
         /\ \A d \in calls : ~Above(c.path, d.path)
  /\ \A c \in Recorded : c.newInput # Nil \/ (c.v = Nil /\ c.oldInput # Nil)
  /\ \A str \in DOMAIN diff : \E c \in Recorded : c.pathStr = str /\ ~Undeclared(c)

\* C1 witness: a map patched over a different old map, with an old input but
\* no new input, is suppressed with everything below it
C1_Witness ==
  /\ status = "ok"
  /\ diff = <<>>
  /\ \E c \in calls :
       /\ c.outcome = "suppressed"
       /\ IsMap(c.v) /\ IsMap(c.old) /\ c.v # c.old
       /\ c.oldInput # Nil

\* the deleted-input node: no new input, nil patched value, an old input
DeletedInput(c) == c.newInput = Nil /\ c.v = Nil /\ c.oldInput # Nil

\* C2 as stated: a node with no new input, a nil patched value and an old
\* input yields no diff entry.
C2_AsStated ==
  \A c \in calls : DeletedInput(c) => c.outcome # "recorded" /\ c.pathStr \notin DOMAIN diff

\* C2 amended: such a node is not suppressed: unless the force-new query fails
\* it records a DELETE (or DELETE_REPLACE) entry with InputDiff = true.
C2_DeleteRecorded ==
  \A c \in calls :
    DeletedInput(c) =>
      /\ c.outcome \in {"recorded", "error"}
      /\ c.outcome = "recorded" =>
           /\ c.kind \in DeleteKinds
           /\ c.inputDiff
           /\ PathStr(c.path) \in DOMAIN diff

\* C2 witness: the delete of an old input was recorded and returned
C2_Witness ==
  /\ status = "ok"
  /\ \E c \in Recorded :
       /\ DeletedInput(c)
       /\ c.old # Nil
       /\ diff[c.pathStr] = [Kind |-> "DELETE", InputDiff |-> TRUE]

\* C3: an entry of a nil patched value is a DELETE(_REPLACE) with InputDiff; an
\* entry of a non-nil patched value over a nil old value is an ADD(_REPLACE);
\* ADD and UPDATE entries have no InputDiff, so InputDiff marks the deletes.
C3_Classification ==
  /\ \A c \in Recorded :
       /\ c.v = Nil => c.kind \in DeleteKinds /\ c.inputDiff
       /\ c.v # Nil /\ c.old = Nil => c.kind \in AddKinds
       /\ c.v # Nil /\ c.old # Nil => c.kind \in UpdateKinds
       /\ c.kind \in AddKinds \cup UpdateKinds => ~c.inputDiff
  /\ \A str \in DOMAIN diff :
       /\ diff[str].Kind \in DeleteKinds \cup AddKinds \cup UpdateKinds
       /\ diff[str].InputDiff <=> diff[str].Kind \in DeleteKinds

\* C3 witness: one computation records a delete, an add and an update
C3_Witness ==
  /\ status = "ok"
  /\ \E c1, c2, c3 \in Recorded :
       /\ c1.v = Nil /\ diff[c1.pathStr].InputDiff
       /\ c2.v # Nil /\ c2.old = Nil /\ diff[c2.pathStr].Kind = "ADD"
       /\ c3.v # Nil /\ c3.old # Nil /\ diff[c3.pathStr].Kind = "UPDATE"

IsNumber(x) == x.t \in {"int64", "float64"}

IsPrimitive(x) == x # Nil /\ ~IsMap(x) /\ ~IsArr(x)

\* the exact numeric value of an int64 or float64
ExactValue(x) == [neg |-> x.neg, mag |-> x.mag, half |-> IF x.t = "float64" THEN x.half ELSE 0]

\* the magnitude is at most 2^53: float64 holds the integer exactly
FitsMantissa(x) == MagBits(x.mag) <= 53 \/ x.mag = <<2048, 0, 0>>

\* a leaf comparison: a declared input, two non-nil values, the patched one
\* primitive (and a force-new query that does not fail)
LeafCompare(c) ==
  c.newInput # Nil /\ IsPrimitive(c.v) /\ c.old # Nil /\ c.outcome # "error"

Updated(c) == c.outcome = "recorded" /\ c.kind \in UpdateKinds

\* C4 as stated: at a leaf, an int64 and a float64 of the same numeric value
\* record nothing, numbers whose values differ record an UPDATE, and values of
\* different kinds that are not both numbers are never equal.
C4_AsStated ==
  \A c \in calls :
    LeafCompare(c) =>
      /\ IsNumber(c.v) /\ IsNumber(c.old) /\ ExactValue(c.v) = ExactValue(c.old)
           => c.outcome = "equal"
      /\ IsNumber(c.v) /\ IsNumber(c.old) /\ ExactValue(c.v) # ExactValue(c.old)
           => Updated(c)
      /\ c.v.t # c.old.t /\ ~(IsNumber(c.v) /\ IsNumber(c.old))
           => Updated(c)

\* C4 amended: an int64 and a float64 are compared after the int64 is converted
\* to float64: equal values record nothing (so an int64 beyond 2^53 equals the
\* float64 it rounds to), values that differ after the conversion record an
\* UPDATE, as do differing numbers of one type and differing numbers when the
\* int64 is at most 2^53 in magnitude; values of different kinds that are not
\* both int64/float64 are never equal.
C4_NumericEquivalence ==
  \A c \in calls :
    LeafCompare(c) =>
      /\ IsNumber(c.v) /\ IsNumber(c.old) /\ ExactValue(c.v) = ExactValue(c.old)
           => c.outcome = "equal"
      /\ IsNumber(c.v) /\ IsNumber(c.old) /\ ExactValue(c.v) # ExactValue(c.old)
           /\ (c.v.t = c.old.t \/ (FitsMantissa(c.v) /\ FitsMantissa(c.old)))
           => Updated(c)
      /\ IsNumber(c.v) /\ IsNumber(c.old) /\ c.v.t # c.old.t
           => (c.outcome = "equal" <=> ToFloat(c.v).f = ToFloat(c.old).f)
      /\ IsNumber(c.v) /\ IsNumber(c.old) => c.outcome = "equal" \/ Updated(c)
      /\ c.v.t # c.old.t /\ ~(IsNumber(c.v) /\ IsNumber(c.old))
           => Updated(c)

\* C4 witness: the int64 2^53 + 3 against the float64 2^53 + 2 is an UPDATE
\* (the conversion rounds the int64 up to 2^53 + 4)
C4_Witness ==
  /\ status = "ok"
  /\ \E c \in Recorded :
       c.old = Big(3) /\ c.v = FBig(2) /\ diff[c.pathStr].Kind = "UPDATE"

\* the force-new patterns that match the single-path document of a call
MatchingPatterns(c) ==
  {n \in 1..Len(forceNew) : PatternMatches(MakePatchSlice(c.path, c.v), forceNew[n])}

\* C5: an entry has the _REPLACE variant of its kind iff the single-path
\* document of its path and patched value matches a force-new pattern, and the
\* plain kind otherwise.
C5_ReplaceIffMatch ==
  \A c \in Recorded :
    /\ c.kind \in ReplaceKinds <=> MatchingPatterns(c) # {}
    /\ c.v = Nil => c.kind = IF MatchingPatterns(c) # {} THEN "DELETE_REPLACE" ELSE "DELETE"
    /\ c.v # Nil /\ c.old = Nil =>
         c.kind = IF MatchingPatterns(c) # {} THEN "ADD_REPLACE" ELSE "ADD"
    /\ c.v # Nil /\ c.old # Nil =>
         c.kind = IF MatchingPatterns(c) # {} THEN "UPDATE_REPLACE" ELSE "UPDATE"

\* C5 witness: of two updates one matches a pattern and the other does not
C5_Witness ==
  /\ status = "ok"
  /\ \E c1, c2 \in Recorded :
       /\ diff[c1.pathStr].Kind = "UPDATE_REPLACE" /\ c1.path = <<Key(kB)>>
       /\ diff[c2.pathStr].Kind = "UPDATE" /\ c2.path = <<Key(kA)>>

\* C6 as stated: when the force-new query fails, no diff entries are returned
\* with the error.
C6_NoPartialResult == status = "error" => diff = <<>>

\* --- the path rendering as the claim words it
Bare(k) == \A n \in 1..Len(k) : k[n] \notin {".", "\"", "[", "]"}

\* nothing was output for the segments before the n-th
FirstOutput(path, n) == \A j \in 1..(n - 1) : IsKey(path[j]) /\ path[j].k = <<>>

RECURSIVE Concat(_)
Concat(seqs) == IF seqs = <<>> THEN <<>> ELSE Head(seqs) \o Concat(Tail(seqs))

Quoted(k) == Concat([n \in 1..Len(k) |-> IF k[n] = "\"" THEN <<"\\", "\"">> ELSE <<k[n]>>])

Decimal(n) == IF n < 10 THEN <<Digit(n)>> ELSE <<Digit(n \div 10), Digit(n % 10)>>

SegmentText(path, n) ==
  LET seg == path[n]
  IN  IF ~IsKey(seg) THEN <<"[">> \o Decimal(seg.i) \o <<"]">>
      ELSE IF Bare(seg.k)
           THEN IF FirstOutput(path, n) THEN seg.k ELSE <<".">> \o seg.k
           ELSE <<"[", "\"">> \o Quoted(seg.k) \o <<"\"", "]">>

Rendering(path) == Concat([n \in 1..Len(path) |-> SegmentText(path, n)])

ItemsNamePath == <<Key(kItems), Idx(0), Key(kName)>>

ItemsNameString == <<"i", "t", "e", "m", "s", "[", "0", "]", ".", "n", "a", "m", "e">>

LastAppliedPath == <<Key(kMetadata), Key(kAnnotations), Key(kLastApplied)>>

LastAppliedString == <<"m", "e", "t", "a", "d", "a", "t", "a", ".", "a", "n", "n", "o", "t", "a", "t", "i", "o", "n", "s", "[", "\"", "k", "u", "b", "e", "c", "t", "l", ".", "k", "u", "b", "e", "r", "n", "e", "t", "e", "s", ".", "i", "o", "/", "l", "a", "s", "t", "-", "a", "p", "p", "l", "i", "e", "d", "-", "c", "o", "n", "f", "i", "g", "u", "r", "a", "t", "i", "o", "n", "\"", "]">>

\* C7: an entry's key is its path rendered segment by segment: a key without
\* reserved characters bare when it is the first output and after a dot
\* otherwise, any other key as ["key"] with its quotes escaped, an index as [N];
\* items, 0, name gives items[0].name, and the last-applied-configuration
\* annotation gives metadata.annotations["kubectl.kubernetes.io/..."].
C7_PathRendering ==
  \A c \in Recorded :
    /\ c.pathStr = Rendering(c.path)
    /\ c.pathStr \in DOMAIN diff
    /\ c.path = ItemsNamePath => c.pathStr = ItemsNameString
    /\ c.path = LastAppliedPath => c.pathStr = LastAppliedString

\* C7 witness: the entry of items, 0, name is returned under items[0].name
C7_Witness ==
  /\ status = "ok"
  /\ \E c \in Recorded : c.path = ItemsNamePath
  /\ DOMAIN diff = {ItemsNameString}

\* --- structurally and numerically identical non-null values
RECURSIVE Identical(_, _)
Identical(x, y) ==
  IF x = Nil \/ y = Nil THEN FALSE
  ELSE IF IsMap(x)
       THEN /\ IsMap(y)
            /\ DOMAIN x.m = DOMAIN y.m
            /\ \A k \in DOMAIN x.m : Identical(x.m[k], y.m[k])
  ELSE IF IsArr(x)
       THEN /\ IsArr(y)
            /\ Len(x.a) = Len(y.a)
            /\ \A n \in 1..Len(x.a) : Identical(x.a[n], y.a[n])
  ELSE IF IsNumber(x) /\ IsNumber(y) THEN ExactValue(x) = ExactValue(y)
  ELSE x = y

Started == status # "init" /\ LenMap(patch) # 0 /\ oldLiveState # Nil

\* C8 as stated: when the new inputs and the old live state are identical at
\* every path of the patch, the returned diff is empty.
C8_AsStated ==
  /\ status = "ok"
  /\ \A k \in DOMAIN patch.m : Identical(Get(OrEmptyMap(newInputs), k), Get(oldLiveState, k))
  => diff = <<>>

\* C8 amended: when the patch and the old live state are identical under every
\* key of the patch, nothing is recorded and the returned diff is empty.
C8_NoOp ==
  /\ Started
  /\ \A k \in DOMAIN patch.m : Identical(patch.m[k], Get(oldLiveState, k))
  => Recorded = {} /\ diff = <<>> /\ status \in {"running", "ok"}

\* C8 witness: a patch that repeats the old state, with a float64 for an int64
\* under a declared input, returned an empty diff
C8_Witness ==
  /\ status = "ok"
  /\ \A k \in DOMAIN patch.m : Identical(patch.m[k], Get(oldLiveState, k))
  /\ \E c \in calls : c.outcome = "equal" /\ c.v.t # c.old.t /\ c.newInput # Nil
  /\ diff = <<>>

\* --- the array example: old [{"a":1},{"b":2}], patched [{"a":1}], under key a;
\* --- the old inputs declared the old array, the new inputs declare the array
ArrayExample ==
  /\ patch = One(kA, Arr(<<One(kA, I1)>>))
  /\ oldLiveState = One(kA, Arr(<<One(kA, I1), One(kB, I2)>>))
  /\ oldInputs = oldLiveState
  /\ newInputs \in {patch, oldLiveState}

ElementString == <<"a", "[", "1", "]">>

ElementKeyString == <<"a", "[", "1", "]", ".", "b">>

\* C9 as stated: the key of the removed second element surfaces as a DELETE at
\* its key path a[1].b.
C9_AsStated ==
  status = "ok" /\ ArrayExample =>
    ElementKeyString \in DOMAIN diff /\ diff[ElementKeyString].Kind \in DeleteKinds

\* C9 amended: the removed second element surfaces as one DELETE entry with
\* InputDiff at the element's path a[1], and nothing is visited below a nil
\* patched value, so no key of the element has an entry.
C9_ElementDeleted ==
  /\ status = "ok" /\ ArrayExample =>
       /\ DOMAIN diff = {ElementString}
       /\ diff[ElementString].Kind \in DeleteKinds
       /\ diff[ElementString].InputDiff
  /\ \A c \in calls : c.v = Nil => \A d \in calls : ~Above(c.path, d.path)

\* C9 witness: the example returned the one entry a[1]: DELETE
C9_Witness ==
  /\ status = "ok"
  /\ ArrayExample
  /\ newInputs = oldLiveState
  /\ diff = (ElementString :> [Kind |-> "DELETE", InputDiff |-> TRUE])

\* --- the keys a map call visits
MapCalls == {c \in calls : c.outcome = "map"}

CallsAt(path) == {c \in calls : c.path = path}

HasIndex(path) == \E n \in 1..Len(path) : ~IsKey(path[n])

OldOnly(c) == DOMAIN c.old.m \ DOMAIN c.v.m

\* C10: every key of a patched map is processed; a key of the old map that the
\* patched map lacks is processed, as a deletion, only inside an array (at or
\* below an array element); outside arrays such a key is never visited.
C10_MapKeys ==
  /\ \A c \in calls : c.inArray <=> HasIndex(c.path)
  /\ \A c \in MapCalls : \A k \in OldOnly(c) :
       \A d \in CallsAt(Append(c.path, Key(k))) :
         c.inArray /\ d.v = Nil /\ d.old = c.old.m[k] /\ d.inArray
  /\ Started =>
       \A k \in DOMAIN oldLiveState.m \ DOMAIN patch.m : CallsAt(<<Key(k)>>) = {}
  /\ status = "ok" =>
       /\ \A k \in DOMAIN patch.m : \E d \in CallsAt(<<Key(k)>>) : d.v = patch.m[k]
       /\ \A c \in MapCalls :
            /\ \A k \in DOMAIN c.v.m :
                 \E d \in CallsAt(Append(c.path, Key(k))) : d.v = c.v.m[k]
            /\ c.inArray => \A k \in OldOnly(c) : CallsAt(Append(c.path, Key(k))) # {}

\* C10 witness: below an array element a key of the old map that the patch
\* lacks was recorded as a delete
C10_Witness ==
  /\ status = "ok"
  /\ \E c \in MapCalls :
       /\ Len(c.path) = 3
       /\ \E k \in OldOnly(c) : \E d \in CallsAt(Append(c.path, Key(k))) :
            d.outcome = "recorded" /\ d.kind \in DeleteKinds

\* --- the elements an array call visits
SliceCalls == {c \in calls : c.outcome = "slice"}

Min(a, b) == IF a < b THEN a ELSE b

Max(a, b) == IF a < b THEN b ELSE a

\* element i (from 0) of a value that may be no array or too short an array
Element(x, i) == IF IsArr(x) /\ i < Len(x.a) THEN x.a[i + 1] ELSE Nil

\* C11: below an array call, index i is processed with the pair (v[i], old[i])
\* when both arrays have it, as an addition (old = nil) when only the patched
\* array has it, as a deletion (v = nil) when only the old array has it, and
\* never otherwise; the inputs of the call are the elements i of the input
\* arrays, nil beyond their length; a call that returned processed every index.
C11_ArrayIndices ==
  /\ \A c \in SliceCalls : \A d \in calls :
       Len(d.path) = Len(c.path) + 1 /\ Above(c.path, d.path) =>
         LET i == d.path[Len(d.path)].i
         IN  /\ ~IsKey(d.path[Len(d.path)])
             /\ i < Max(Len(c.v.a), Len(c.old.a))
             /\ d.v = Element(c.v, i)
             /\ d.old = Element(c.old, i)
             /\ i < Min(Len(c.v.a), Len(c.old.a)) => d.v = c.v.a[i + 1] /\ d.old = c.old.a[i + 1]
             /\ i >= Len(c.old.a) => d.old = Nil
             /\ i >= Len(c.v.a) => d.v = Nil
             /\ d.newInput = Element(c.newInput, i)
             /\ d.oldInput = Element(c.oldInput, i)
             /\ d.inArray
  /\ status = "ok" =>
       \A c \in SliceCalls : \A i \in 0..(Max(Len(c.v.a), Len(c.old.a)) - 1) :
         CallsAt(Append(c.path, Idx(i))) # {}

\* C11 witness: a patched array of two elements over an old array of one, with
\* a new-input array of one element: index 0 was compared pairwise, index 1
\* was processed as an addition whose new input, beyond the array, is nil
C11_Witness ==
  /\ status = "ok"
  /\ \E c \in SliceCalls :
       /\ Len(c.v.a) = 2 /\ Len(c.old.a) = 1
       /\ IsArr(c.newInput) /\ Len(c.newInput.a) = 1
       /\ \E d \in CallsAt(Append(c.path, Idx(0))) : d.old # Nil /\ d.newInput # Nil
       /\ \E d \in CallsAt(Append(c.path, Idx(1))) :
            d.v # Nil /\ d.old = Nil /\ d.newInput = Nil

\* --- the preconditions of convertPatchToDiff
ContractViolated == LenMap(patch) = 0 \/ oldLiveState = Nil

\* C12: with an empty (or nil) patch or a nil old live state convertPatchToDiff
\* panics at once: it makes no call, builds no diff, and never returns, neither
\* a diff map nor an error value.
C12_FailFast ==
  ContractViolated =>
    /\ status \in {"init", "panic"}
    /\ calls = {}
    /\ diff = <<>>
    /\ stack = <<>>

\* C12 witness: the call with an empty, non-nil patch over a non-nil old live
\* state has panicked
C12_Witness ==
  /\ status = "panic"
  /\ patch = EmptyMap
  /\ oldLiveState # Nil
  /\ calls = {}

\* --- what an entry says about the two values
\* the patched value differs from the old one: not deep-equal, and not two
\* numbers of the same numeric value
Differs(v, old) ==
  /\ v # old
  /\ ~(IsNumber(v) /\ IsNumber(old) /\ ExactValue(v) = ExactValue(old))

BothNil(c) == c.v = Nil /\ c.old = Nil

Returned == status \in {"ok", "error"}

\* C14, for a force-new query that never fails: a call of convertPatchToDiff
\* with the arguments of an earlier call returns the same diff map and the
\* same error as the earlier call, whatever the orders in which the two calls
\* ranged over the maps.
C14_Deterministic ==
  first # NoResult /\ Returned /\ failDocs = {} =>
    first = [status |-> status, diff |-> diff]

(***************************************************************************)
(* Package stack, crypt.go: the passphrase crypter.  The file holds two    *)
(* versions of the package: one keeps a secrets.Manager and builds it on   *)
(* every initCrypter, the other keeps a config.Crypter and builds it once. *)
(* The ciphers belong to imported packages; they are modelled by their     *)
(* interface: a key is derived from a passphrase and a salt, a ciphertext  *)
(* is sealed under a key with a fresh nonce and opens under that key only. *)
(***************************************************************************)
\* longest history of calls in one process
MaxOps == 3

Builds == {"secretsManager", "crypter"}

Passphrases == {"", "foo", "bar"}

Salts == {Salt("LAQ7P6sT", "foo"), Salt("kHqNYXEu", "foo")}

Plaintexts == {"test", "jr7$sZS!vfPuJlM"}

Nonces == {"n1", "n2"}

\* the key of a crypter: passphrase.NewPassphraseSecretsManager decodes the
\* salt bytes of the string, config.NewSymmetricCrypterFromPassphrase is
\* given the whole string as salt
DeriveKey(b, pp, salt) ==
  IF b = "secretsManager"
  THEN [pp |-> pp, salt |-> Salt(salt.bytes, "")]
  ELSE [pp |-> pp, salt |-> salt]

\* EncryptValue: "v1:<nonce>:<ciphertext>"
Seal(key, nonce, pt) == [key |-> key, nonce |-> nonce, pt |-> pt]

\* a string that is no ciphertext
Garbage == Seal(NoKey, "", "")

NoCipher == Seal(NoKey, "none", "")

NoSalt == Salt("none", "")

Op(op, pp, salt, pt, ct, res) ==
  [op |-> op, pp |-> pp, salt |-> salt, pt |-> pt, ct |-> ct, res |-> res]

\* the process lives and may make one more call
Alive == Len(ops) < MaxOps /\ \A n \in 1..Len(ops) : ops[n].res # "panic"

Did(o) == ops' = Append(ops, o)

\* the provider before any call
ProviderIdle ==
  /\ patch = Nil /\ oldLiveState = Nil /\ newInputs = Nil /\ oldInputs = Nil
  /\ forceNew = <<>> /\ failDocs = {}
  /\ status = "init" /\ stack = <<>> /\ diff = <<>> /\ calls = {} /\ first = NoResult

\* os.Setenv("PULUMI_CONFIG_PASSPHRASE", pp), as the tests do
Setenv ==
  /\ Alive
  /\ \E pp \in Passphrases :
       /\ env' = pp
       /\ Did(Op("Setenv", pp, NoSalt, "", NoCipher, "ok"))
  /\ UNCHANGED <<build, crypter, outsideStack>>

\* initCrypter(salt) with the environment e and the package variable c: what
\* it returns and what the package variable is afterwards
InitResult(b, e, c, salt) ==
  IF b = "crypter" /\ c # NoCrypter THEN [res |-> "ok", crypter |-> c]
  ELSE IF e = "" THEN [res |-> "err", crypter |-> c]
  ELSE IF b = "secretsManager" /\ salt.pp # e THEN [res |-> "err", crypter |-> c]
  ELSE [res |-> "ok", crypter |-> [key |-> DeriveKey(b, e, salt)]]

\* initCrypter(salt)
InitCrypterCall ==
  /\ Alive
  /\ \E salt \in Salts :
       LET r == InitResult(build, env, crypter, salt)
       IN  /\ crypter' = r.crypter
           /\ Did(Op("initCrypter", env, salt, "", NoCipher, r.res))
  /\ UNCHANGED <<build, env, outsideStack>>

\* InitCrypterWithSaltAndPassphrase(salt, passphrase)
InitCrypterWithSaltAndPassphrase ==
  /\ Alive
  /\ build = "crypter"
  /\ \E salt \in Salts, pp \in Passphrases :
       LET r == InitResult(build, pp, crypter, salt)
       IN  /\ env' = pp
           /\ crypter' = r.crypter
           /\ Did(Op("initCrypter", pp, salt, "", NoCipher, r.res))
  /\ UNCHANGED <<build, outsideStack>>

\* a call on the nil package variable: an error in one version, a nil
\* dereference in the other
Uninitialized(b) == IF b = "crypter" THEN "err" ELSE "panic"

\* Encrypt(value) with the package variable c and the nonce the cipher draws
EncryptResult(b, c, nonce, value) ==
  IF c = NoCrypter THEN [res |-> Uninitialized(b), ct |-> NoCipher]
  ELSE [res |-> "ok", ct |-> Seal(c.key, nonce, value)]

\* (mutant: the nil check of Decrypt is inverted)
DecryptResultNilCheckInverted(b, c, value) ==
  IF c # NoCrypter THEN [res |-> Uninitialized(b), pt |-> ""]
  ELSE [res |-> "err", pt |-> ""]

\* Decrypt(value) with the package variable c
DecryptResult(b, c, value) ==
  IF c = NoCrypter THEN [res |-> Uninitialized(b), pt |-> ""]
  ELSE IF value.key = c.key THEN [res |-> "ok", pt |-> value.pt]
  ELSE [res |-> "err", pt |-> ""]

Encrypt ==
  /\ Alive
  /\ \E value \in Plaintexts, nonce \in Nonces :
       LET r == EncryptResult(build, crypter, nonce, value)
       IN  Did(Op("Encrypt", "", NoSalt, value, r.ct, r.res))
  /\ UNCHANGED <<build, env, crypter, outsideStack>>

\* the ciphertexts this process has produced
Encrypted == {ops[n].ct : n \in {x \in 1..Len(ops) : ops[x].op = "Encrypt" /\ ops[x].res = "ok"}}

\* ciphertexts produced elsewhere, under the passphrase foo and either salt
Stored(b) == {Seal(DeriveKey(b, "foo", salt), "n1", "test") : salt \in Salts}

Decrypt ==
  /\ Alive
  /\ \E value \in Encrypted \cup Stored(build) \cup {Garbage} :
       LET r == DecryptResult(build, crypter, value)
       IN  Did(Op("Decrypt", "", NoSalt, r.pt, value, r.res))
  /\ UNCHANGED <<build, env, crypter, outsideStack>>

StackInit ==
  /\ build \in Builds
  /\ env \in Passphrases
  /\ crypter = NoCrypter
  /\ ops = <<>>
  /\ ProviderIdle
  /\ WorkspaceIdle
  /\ MergexIdle
  /\ RandomIdle
  /\ KubeIdle

StackNext ==
  \/ Setenv
  \/ InitCrypterCall
  \/ InitCrypterWithSaltAndPassphrase
  \/ Encrypt
  \/ Decrypt

StackSpec == StackInit /\ [][StackNext]_vars

\* --- calls of the history
OpsAt == 1..Len(ops)

\* an initCrypter call returned nil at or before position n
Initialized(n) == \E i \in 1..n : ops[i].op = "initCrypter" /\ ops[i].res = "ok"

\* C15: once an initCrypter call has returned nil, every Encrypt call succeeds
\* with a non-empty result, and a Decrypt call that directly follows an Encrypt
\* call and is given its result returns the plaintext of that call, without
\* error.
C15_RoundTrip ==
  \A n \in OpsAt :
    Initialized(n) =>
      /\ ops[n].op = "Encrypt" => ops[n].res = "ok" /\ ops[n].ct \notin {NoCipher, Garbage}
      /\ n > 1 /\ ops[n].op = "Decrypt" /\ ops[n - 1].op = "Encrypt"
           /\ ops[n].ct = ops[n - 1].ct =>
           ops[n].res = "ok" /\ ops[n].pt = ops[n - 1].pt

\* C15 witness: initCrypter, Encrypt("test"), Decrypt of its result gave "test"
C15_Witness ==
  /\ Len(ops) = 3
  /\ ops[1].op = "initCrypter" /\ ops[1].res = "ok"
  /\ ops[2].op = "Encrypt" /\ ops[2].pt = "test" /\ ops[2].res = "ok"
  /\ ops[3].op = "Decrypt" /\ ops[3].ct = ops[2].ct
  /\ ops[3].res = "ok" /\ ops[3].pt = "test"

\* the last initCrypter call before position n that returned nil
LastInit(n) ==
  CHOOSE i \in 1..(n - 1) :
    /\ ops[i].op = "initCrypter" /\ ops[i].res = "ok"
    /\ \A j \in (i + 1)..(n - 1) : ~(ops[j].op = "initCrypter" /\ ops[j].res = "ok")

\* C16: a Decrypt call made after an initCrypter(salt) call that returned nil
\* with the passphrase p in the environment opens a ciphertext sealed under
\* the key of (p, salt) and returns its plaintext, whatever calls were made
\* before that initCrypter call.
C16_DecryptUsesLastInit ==
  \A n \in OpsAt :
    ops[n].op = "Decrypt" /\ Initialized(n - 1) =>
      LET init == ops[LastInit(n)]
      IN  ops[n].ct.key = DeriveKey(build, init.pp, init.salt) =>
            ops[n].res = "ok" /\ ops[n].pt = ops[n].ct.pt

(***************************************************************************)
(* Package workspace: getWorkspaceNameAndHashFromFile.  Strings are        *)
(* sequences of characters.                                                *)
(***************************************************************************)
\* longest part of a file name before the suffix
MaxStem == 6

WorkspaceSuffix == <<"-", "w", "o", "r", "k", "s", "p", "a", "c", "e", ".", "j", "s", "o", "n">>

\* file[:n], which panics when n is negative
Prefix(s, n) == SubSeq(s, 1, n)

\* the last element of strings.Split(s, "-"): what follows the last dash
RECURSIVE LastSegment(_)
LastSegment(s) ==
  IF s = <<>> THEN <<>>
  ELSE IF s[Len(s)] = "-" THEN <<>>
  ELSE Append(LastSegment(Prefix(s, Len(s) - 1)), s[Len(s)])

\* sub occurs in s at position n (from 1)
OccursAt(s, sub, n) == n + Len(sub) - 1 <= Len(s) /\ SubSeq(s, n, n + Len(sub) - 1) = sub

\* strings.Index(s, sub) + 1, 0 when sub does not occur
Index(s, sub) ==
  IF \E n \in 1..Len(s) : OccursAt(s, sub, n)
  THEN CHOOSE n \in 1..Len(s) :
         OccursAt(s, sub, n) /\ \A k \in 1..(n - 1) : ~OccursAt(s, sub, k)
  ELSE 0

\* strings.Replace(s, old, "", 1) for a non-empty old: the first occurrence
\* of old is removed
RemoveFirst(s, old) ==
  LET n == Index(s, old)
  IN  IF n = 0 THEN s
      ELSE SubSeq(s, 1, n - 1) \o SubSeq(s, n + Len(old), Len(s))

GetWorkspaceNameAndHashFromFile(f) ==
  IF Len(f) < Len(WorkspaceSuffix) THEN [res |-> "panic", name |-> <<>>, hash |-> <<>>]
  ELSE LET workspaceHashName == Prefix(f, Len(f) - Len(WorkspaceSuffix))
           hash == LastSegment(workspaceHashName)
       IN  [res  |-> "ok",
            name |-> RemoveFirst(workspaceHashName, <<"-">> \o hash),
            hash |-> hash]

StemChars == {"a", "b", "-"}

Stems == UNION {[1..n -> StemChars] : n \in 0..MaxStem}

PulumiDemo == <<"p", "u", "l", "u", "m", "i", "-", "d", "e", "m", "o">>

ExampleHash == <<"0", "4", "9", "b", "c", "3", "6", "9", "5", "3", "0", "d", "2", "f", "0", "5", "a", "8", "b", "a", "2", "c", "d", "b", "b", "b", "4", "9", "1", "6", "4", "c", "f", "d", "3", "b", "a", "0", "6", "6">>

\* file names with the suffix, and names too short to hold it
Files ==
  {s \o WorkspaceSuffix : s \in Stems \cup {PulumiDemo, PulumiDemo \o <<"-">> \o ExampleHash}}
    \cup {s \in Stems : Len(s) <= 1}

WorkspaceInit ==
  /\ file \in Files
  /\ got = NotCalled
  /\ ProviderIdle
  /\ StackIdle
  /\ MergexIdle
  /\ RandomIdle
  /\ KubeIdle

CallGetWorkspaceNameAndHashFromFile ==
  /\ got = NotCalled
  /\ got' = GetWorkspaceNameAndHashFromFile(file)
  /\ UNCHANGED <<file, outsideWorkspace>>

WorkspaceNext == CallGetWorkspaceNameAndHashFromFile

WorkspaceSpec == WorkspaceInit /\ [][WorkspaceNext]_vars

\* --- file names <name>-<hash>-workspace.json
HasDash(s) == \E n \in 1..Len(s) : s[n] = "-"

\* the file is name-hash-workspace.json for a non-empty name and a non-empty
\* hash without dashes
OfTheForm(f, name, hash) ==
  /\ name # <<>> /\ hash # <<>> /\ ~HasDash(hash)
  /\ f = name \o <<"-">> \o hash \o WorkspaceSuffix

Parts == Stems \cup {PulumiDemo, ExampleHash}

\* C17: on a file name-hash-workspace.json, where the name may hold dashes and
\* the hash holds none, the call returns the name and the hash, without error.
C17_NameAndHash ==
  got # NotCalled =>
    \A name \in Parts, hash \in Parts :
      OfTheForm(file, name, hash) =>
        got = [res |-> "ok", name |-> name, hash |-> hash]

\* C18: on pulumi-demo-workspace.json the call returns the name pulumi-demo
\* and the empty hash.
C18_NoHash ==
  got # NotCalled /\ file = PulumiDemo \o WorkspaceSuffix =>
    got = [res |-> "ok", name |-> PulumiDemo, hash |-> <<>>]

(***************************************************************************)
(* Package helpers (mergex): StringMergeArray.Merge and the generic        *)
(* MergeArray.Merge.  A key is a pointer to a string: the address and the  *)
(* string it points to.  The outputs belong to an imported package; the    *)
(* callbacks are run on the resolved values, and the generic `values`      *)
(* appends inside a nested ApplyT that may not have run when it returns.   *)
(***************************************************************************)
\* most elements of a merged array
MaxItems == 3

Variants == {"string", "generic"}

\* a *string: its address and the string it points to
Ptr(addr, str) == [addr |-> addr, str |-> str]

\* ptr.String("k"), ptr.String("k") again, ptr.String("k2")
Keys == {Ptr("p1", "192.168.0.1"), Ptr("p2", "192.168.0.1"), Ptr("p3", "192.168.0.2")}

ValueLists == {<<"hostname1">>, <<"hostname2">>, <<"hostname3">>}

Items == [Key : Keys, Values : ValueLists]

MergeArrays == UNION {[1..n -> Items] : n \in 0..MaxItems}

\* currentKey == key: of strings in stringmerge.go (the pointers are
\* dereferenced), of pointers in the generic merge
SameKey(vt, k1, k2) == IF vt # "generic" THEN k1.str = k2.str ELSE k1 = k2

\* values(sm, key): the values of the elements with that key, in order
RECURSIVE ValuesFor(_, _, _)
ValuesFor(vt, sm, key) ==
  IF sm = <<>> THEN <<>>
  ELSE (IF SameKey(vt, Head(sm).Key, key) THEN Head(sm).Values ELSE <<>>)
         \o ValuesFor(vt, Tail(sm), key)

\* the Key of a result element: a new output of the string, or the key itself
ResultKey(vt, key) == IF vt # "generic" THEN Ptr("new", key.str) ELSE key

\* the loop of Merge over the elements from position n, with the result so far
\* (handledKeys holds the keys of the result); `ran` tells whether the nested
\* callbacks of the generic values had run
RECURSIVE MergeFrom(_, _, _, _, _)
MergeFrom(vt, sm, n, result, ran) ==
  IF n > Len(sm) THEN result
  ELSE LET key == sm[n].Key
           handled == \E i \in 1..Len(result) : SameKey(vt, result[i].Source, key)
       IN  IF handled THEN MergeFrom(vt, sm, n + 1, result, ran)
           ELSE MergeFrom(vt, sm, n + 1,
                  Append(result,
                    [Key    |-> ResultKey(vt, key),
                     Source |-> key,
                     Values |-> IF vt = "generic" /\ ~ran THEN <<>>
                                ELSE ValuesFor(vt, sm, key)]),
                  ran)

\* Merge(): the result elements, Key and Values
MergeResult(vt, sm, ran) ==
  LET r == MergeFrom(vt, sm, 1, <<>>, ran)
  IN  [i \in 1..Len(r) |-> [Key |-> r[i].Key, Values |-> r[i].Values]]

MergexInit ==
  /\ variant \in Variants
  /\ sma \in MergeArrays
  /\ resolved = [i \in 1..Len(sma) |-> "known"]
  /\ merged = NotMerged
  /\ ProviderIdle
  /\ StackIdle
  /\ WorkspaceIdle
  /\ RandomIdle
  /\ KubeIdle

\* the elements whose key resolved to a pointer that is not nil
RECURSIVE WithKey(_, _)
WithKey(sm, rv) ==
  IF sm = <<>> THEN <<>>
  ELSE (IF Head(rv) = "known" THEN <<Head(sm)>> ELSE <<>>) \o WithKey(Tail(sm), Tail(rv))

\* how the call ends.  The callback of ApplyT runs once every output of the
\* array has resolved to a known value, and never when one stays unknown or
\* fails: wg.Wait() then blocks for ever.  A nil key (a nil pointer held by
\* the interface value) is dereferenced by Merge in src/merge, and by the
\* values of both StringMergeArrays, which Merge calls for a key that is
\* not nil; the generic merge compares the pointers only.
Ending(vt, sm, rv) ==
  LET is(r) == \E i \in 1..Len(rv) : rv[i] = r
  IN  IF is("unknown") \/ is("error") THEN "blocked"
      ELSE IF ~is("nil") \/ vt = "generic" THEN "ok"
      ELSE IF vt = "merge" \/ is("known") THEN "panic"
      ELSE "ok"

Merge ==
  /\ merged = NotMerged
  /\ \E ran \in IF variant = "generic" THEN BOOLEAN ELSE {TRUE} :
       merged' = IF Ending(variant, sma, resolved) = "ok"
                   THEN [res |-> "ok",
                         entries |-> MergeResult(variant, WithKey(sma, resolved), ran)]
                   ELSE [res |-> Ending(variant, sma, resolved), entries |-> <<>>]
  /\ UNCHANGED <<variant, sma, resolved, outsideMergex>>

MergexNext == Merge

MergexSpec == MergexInit /\ [][MergexNext]_vars

\* --- the merge of the elements with equal key strings
KeyStrings == {sma[i].Key.str : i \in 1..Len(sma)}

\* where a key string first occurs in the input
FirstAt(str) == CHOOSE i \in 1..Len(sma) :
  sma[i].Key.str = str /\ \A j \in 1..(i - 1) : sma[j].Key.str # str

RECURSIVE AllValues(_, _)
AllValues(sm, str) ==
  IF sm = <<>> THEN <<>>
  ELSE (IF Head(sm).Key.str = str THEN Head(sm).Values ELSE <<>>) \o AllValues(Tail(sm), str)

\* C19: Merge returns one entry per distinct key string of its input, in the
\* order of first occurrence, keys k, k, k2 giving two entries; the Values of
\* an entry are the values of all the inputs with that key string (stated here
\* for StringMergeArray, whose values are collected before Merge returns).
C19_OneEntryPerKey ==
  merged # NotMerged =>
    LET e == merged.entries
    IN  /\ Len(e) = Cardinality(KeyStrings)
        /\ \A i \in 1..Len(e) :
             /\ e[i].Key.str \in KeyStrings
             /\ variant = "string" => e[i].Values = AllValues(sma, e[i].Key.str)
             /\ \A j \in (i + 1)..Len(e) : FirstAt(e[i].Key.str) < FirstAt(e[j].Key.str)

(***************************************************************************)
(* Package random: Password and PasswordFromChars.  math/rand is modelled  *)
(* by the numbers it may return: rand.Intn(n) is some number of 0..n-1.    *)
(***************************************************************************)
\* largest argument of Password, beside the length of the test
MaxArg == 10

TestLength == 251

DefaultMaxLength == 32

DefaultMinLength == 8

PasswordChars ==
  <<"A", "B", "C", "D", "E", "F", "G", "H", "I", "J", "K", "L", "M", "N", "O", "P", "Q", "R", "S", "T", "U", "V", "W", "X", "Y", "Z", "a", "b", "c", "d", "e", "f", "g", "h", "i", "j", "k", "l", "m", "n", "o", "p", "q", "r", "s", "t", "u", "v", "w", "x", "y", "z", "0", "1", "2", "3", "4", "5", "6", "7", "8", "9", "!", "%", "&", "(", ")", "=", "?">>

\* (mutant: maxLength is not raised to minLength)
DefaultsNoRaise(min, max) ==
  [max |-> IF max = 0 THEN DefaultMaxLength ELSE max,
   min |-> IF min = 0 THEN DefaultMinLength ELSE min]

\* the three ifs at the head of PasswordFromChars, in their order
Defaults(min, max) ==
  LET raised == IF max < min THEN min ELSE max
  IN  [max |-> IF raised = 0 THEN DefaultMaxLength ELSE raised,
       min |-> IF min = 0 THEN DefaultMinLength ELSE min]

\* the ways the character draws rand.Intn(len(chars)) may fall: always the
\* first character, always the last, or stepping through the set
Draws == {"first", "last", "step"}

Draw(g, i, n) ==
  CASE g = "first" -> 0
    [] g = "last"  -> n - 1
    [] OTHER       -> (7 * i) % n

\* the numbers rand.Intn(max-min) may return for the length
LengthDraws(min, max) ==
  LET d == Defaults(min, max)
  IN  IF d.max > d.min THEN 0..(d.max - d.min - 1) ELSE {0}

\* PasswordFromChars with the draws g (characters) and r (length); str[:length]
\* panics when length is negative or beyond the string
PasswordFromChars(min, max, chars, g, r) ==
  LET d == Defaults(min, max)
      str == [i \in 1..d.max |-> chars[Draw(g, i, Len(chars)) + 1]]
      length == IF d.max > d.min THEN r + d.min ELSE d.max
  IN  IF length < 0 \/ length > Len(str)
      THEN [res |-> "panic", str |-> <<>>]
      ELSE [res |-> "ok", str |-> SubSeq(str, 1, length)]

RandomInit ==
  /\ \E a \in ((-1)..MaxArg) \X ((-1)..MaxArg) \cup {<<TestLength, TestLength>>} :
       minLength = a[1] /\ maxLength = a[2]
  /\ password = NoPassword
  /\ ProviderIdle
  /\ StackIdle
  /\ WorkspaceIdle
  /\ MergexIdle
  /\ KubeIdle

Password ==
  /\ password = NoPassword
  /\ \E g \in Draws, r \in LengthDraws(minLength, maxLength) :
       password' = PasswordFromChars(minLength, maxLength, PasswordChars, g, r)
  /\ UNCHANGED <<minLength, maxLength, outsideRandom>>

RandomNext == Password

RandomSpec == RandomInit /\ [][RandomNext]_vars

\* --- the length of a password
\* the bounds after the defaults: maxLength raised to minLength when smaller,
\* 0 maxLength meaning 32, 0 minLength meaning 8
UpperBound ==
  LET raised == IF maxLength < minLength THEN minLength ELSE maxLength
  IN  IF raised = 0 THEN DefaultMaxLength ELSE raised

LowerBound == IF minLength = 0 THEN DefaultMinLength ELSE minLength

InCharacterSet(str) ==
  \A i \in 1..Len(str) : \E n \in 1..Len(PasswordChars) : str[i] = PasswordChars[n]

PasswordReturned == password # NoPassword

NonNegative == minLength >= 0 /\ maxLength >= 0

\* C20 as stated, for arguments that are not negative: the length of the
\* password is at least the lower bound and at most the upper bound after the
\* defaults, and every character is of the character set.
C20_AsStated ==
  PasswordReturned /\ NonNegative =>
    /\ password.res = "ok"
    /\ LowerBound <= Len(password.str) /\ Len(password.str) <= UpperBound
    /\ InCharacterSet(password.str)

\* C20 amended: for arguments that are not negative Password returns a string
\* of the character set whose length is at most the upper bound after the
\* defaults; it is at least the lower bound when the lower bound is not above
\* the upper bound, and equal to the upper bound otherwise (minLength 0 with a
\* maxLength of 1 to 7); Password(n, n) has length n for n > 0.
C20_Length ==
  PasswordReturned /\ NonNegative =>
    /\ password.res = "ok"
    /\ Len(password.str) <= UpperBound
    /\ LowerBound <= UpperBound => LowerBound <= Len(password.str)
    /\ LowerBound > UpperBound =>
         /\ Len(password.str) = UpperBound
         /\ minLength = 0 /\ maxLength \in 1..(DefaultMinLength - 1)
    /\ minLength = maxLength /\ minLength > 0 => Len(password.str) = minLength
    /\ InCharacterSet(password.str)

\* C20 witness: Password(0, 5) returned five characters, fewer than the
\* default minimum
C20_Witness ==
  /\ minLength = 0 /\ maxLength = 5
  /\ password.res = "ok"
  /\ Len(password.str) = 5

(***************************************************************************)
(* StreamInvoke and Cancel (provider.go).  A list or podLogs handler       *)
(* starts a goroutine that sends the items on an unbuffered channel and    *)
(* then a value on done; the handler selects on the provider's context,    *)
(* done, the items and the client's context, and closes both channels      *)
(* when it returns (defer close).  A send and its receive are one step.    *)
(***************************************************************************)
\* most items of a list result, or lines of a log
MaxListed == 2

\* the responses of a watch that are counted; later events change nothing
MaxEvents == 2

\* most Cancel calls
MaxCancels == 2

Toks == {"list", "watch", "podLogs"}

\* list.Items, or the lines of the log: distinct objects, in order
Listings == {[i \in 1..n |-> i] : n \in 0..MaxListed}

StreamInit ==
  /\ clusterUnreachable \in BOOLEAN
  /\ tok \in Toks
  /\ listed \in Listings
  /\ handler = "idle" /\ ret = "none" /\ producer = "none" /\ next = 1
  /\ sent = <<>> /\ canceled = FALSE /\ clientDone = FALSE
  /\ watchStopped = FALSE /\ cancels = 0
  /\ ProviderIdle /\ StackIdle /\ WorkspaceIdle /\ MergexIdle /\ RandomIdle
  /\ CacheIdle /\ ConfigIdle /\ LegacyIdle

\* the handler returns r; its deferred calls close the channels
ReturnFrom(r) == handler' = "returned" /\ ret' = r

\* where the goroutine is after the item at position n was received
After(n) == IF n >= Len(listed) THEN "done" ELSE "objects"

\* StreamInvoke up to the event loop: the cluster is reachable, the arguments
\* are complete and the client's call (List, Watch, Logs) succeeds (ok), or
\* the handler returns the error
StreamInvoke ==
  /\ handler = "idle"
  /\ \E ok \in BOOLEAN :
       IF clusterUnreachable
         THEN ReturnFrom("unreachable") /\ UNCHANGED producer
         ELSE IF ~ok
           THEN ReturnFrom("apiErr") /\ UNCHANGED producer
           ELSE /\ handler' = "select"
                /\ ret' = "none"
                /\ producer' = IF tok = "watch" THEN "none" ELSE After(0)
  /\ UNCHANGED <<clusterUnreachable, tok, listed, next, sent, canceled,
                 clientDone, watchStopped, cancels, outsideStream>>

\* a receive whose object is not sent
ReceiveObjectSkipsSend(ok) ==
  IF ok THEN UNCHANGED <<sent, handler, ret>>
  ELSE ReturnFrom("sendErr") /\ UNCHANGED sent

\* case o := <-objects, case line := <-logLines: the goroutine's send and
\* the handler's receive, then MarshalProperties and server.Send, which
\* succeed (ok) or make the handler return the error
ReceiveObjectSends(ok) ==
  IF ok THEN sent' = Append(sent, listed[next]) /\ UNCHANGED <<handler, ret>>
  ELSE ReturnFrom("sendErr") /\ UNCHANGED sent

ReceiveObject ==
  /\ handler = "select"
  /\ producer = "objects"
  /\ \E ok \in BOOLEAN : ReceiveObjectSends(ok)
  /\ producer' = After(next)
  /\ next' = next + 1
  /\ UNCHANGED <<clusterUnreachable, tok, listed, canceled, clientDone,
                 watchStopped, cancels, outsideStream>>

\* case <-done (list), case err := <-done (podLogs): the goroutine has sent
\* every item and ends; the handler returns nil, or the scanner's error
ReceiveDone ==
  /\ handler = "select"
  /\ producer = "done"
  /\ \E r \in IF tok = "podLogs" THEN {"nil", "scanErr"} ELSE {"nil"} : ReturnFrom(r)
  /\ producer' = "exited"
  /\ UNCHANGED <<clusterUnreachable, tok, listed, next, sent, canceled,
                 clientDone, watchStopped, cancels, outsideStream>>

\* case event := <-watch.ResultChan(): the events keep arriving while the
\* watch is not stopped; the response is sent or the handler returns the error
WatchEvent ==
  /\ handler = "select"
  /\ tok = "watch"
  /\ ~watchStopped
  /\ \E ok \in BOOLEAN :
       IF ok
         THEN /\ sent' = IF Len(sent) < MaxEvents THEN Append(sent, Len(sent) + 1)
                         ELSE sent
              /\ UNCHANGED <<handler, ret>>
         ELSE ReturnFrom("sendErr") /\ UNCHANGED sent
  /\ UNCHANGED <<clusterUnreachable, tok, listed, producer, next, canceled,
                 clientDone, watchStopped, cancels, outsideStream>>

\* the handler leaves the loop on a context that is done: watch.Stop() for a
\* watch, return nil
LeaveLoop ==
  /\ watchStopped' = (watchStopped \/ tok = "watch")
  /\ ReturnFrom("nil")
  /\ UNCHANGED <<clusterUnreachable, tok, listed, producer, next, sent,
                 canceled, clientDone, cancels, outsideStream>>

\* the same for list and podLogs only: a watch without the case
CanceledSeenNotByWatch ==
  /\ handler = "select"
  /\ canceled
  /\ tok # "watch"
  /\ LeaveLoop

\* case <-k.canceler.context.Done()
CanceledSeen ==
  /\ handler = "select"
  /\ canceled
  /\ LeaveLoop

\* case <-server.Context().Done()
ClientDoneSeen ==
  /\ handler = "select"
  /\ clientDone
  /\ LeaveLoop

\* Cancel: k.canceler.cancel(), at any time and any number of times
Cancel ==
  /\ cancels < MaxCancels
  /\ cancels' = cancels + 1
  /\ canceled' = TRUE
  /\ UNCHANGED <<clusterUnreachable, tok, listed, handler, ret, producer, next,
                 sent, clientDone, watchStopped, outsideStream>>

\* the client cancels the stream
ClientCancel ==
  /\ ~clientDone
  /\ clientDone' = TRUE
  /\ UNCHANGED <<clusterUnreachable, tok, listed, handler, ret, producer, next,
                 sent, canceled, watchStopped, cancels, outsideStream>>

\* the goroutine is at a send (objects <- o, done <- struct{}{}) and the
\* handler has returned and closed the channel: the send panics
SendOnClosed ==
  /\ handler = "returned"
  /\ producer \in {"objects", "done"}
  /\ producer' = "panic"
  /\ UNCHANGED <<clusterUnreachable, tok, listed, handler, ret, next, sent,
                 canceled, clientDone, watchStopped, cancels, outsideStream>>

StreamNext ==
  \/ StreamInvoke
  \/ ReceiveObject
  \/ ReceiveDone
  \/ WatchEvent
  \/ CanceledSeen
  \/ ClientDoneSeen
  \/ Cancel
  \/ ClientCancel
  \/ SendOnClosed

StreamSpec == StreamInit /\ [][StreamNext]_vars

\* a select chooses at random among the cases that are ready, and the
\* scheduler runs a goroutine that can run: a case that stays ready is taken
StreamFairSpec ==
  /\ StreamSpec
  /\ WF_vars(ReceiveObject)
  /\ WF_vars(ReceiveDone)
  /\ WF_vars(CanceledSeen)
  /\ WF_vars(ClientDoneSeen)

\* --- a list that nothing interrupts
\* the event loop of a list was entered and has returned, with no
\* cancellation and no failed Send
ListedThrough ==
  /\ tok = "list"
  /\ handler = "returned"
  /\ ret \notin {"unreachable", "apiErr", "sendErr"}
  /\ ~canceled
  /\ ~clientDone

\* C21: a list whose cluster is reachable, that is not cancelled and whose
\* sends succeed sends one response per item of the list result, in the
\* order of the list, and returns nil; and once in its event loop the
\* handler does return.
C21_ListTerminates ==
  /\ [](ListedThrough => sent = listed /\ ret = "nil" /\ producer = "exited")
  /\ (tok = "list" /\ handler = "select") ~> (handler = "returned")

C21_Witness == ListedThrough /\ Len(listed) = MaxListed /\ sent = listed

\* --- a list or podLogs that ends early
\* C23: when a list or podLogs handler ends before every item is sent (by
\* Cancel, by the client's context or by a failed marshal/Send), its
\* goroutine does not send on a channel that the handler has closed.
C23_NoSendOnClosedChannel ==
  tok \in {"list", "podLogs"} /\ handler = "returned" => producer # "panic"

\* --- Cancel
\* the handler leaves its event loop in this step
Returns == handler = "select" /\ handler' = "returned"

\* C24 as stated: once Cancel was called, a watch is stopped whenever its
\* handler returns.
C24_AsStated ==
  [][Returns /\ canceled /\ tok = "watch" => watchStopped']_vars

\* C24: once Cancel was called, a handler in its event loop (list, watch or
\* podLogs) returns, even when events keep arriving; a watch handler that
\* returns nil has stopped its watch (one that returns the error of a failed
\* marshal/Send has not); a further Cancel changes nothing.
C24_CancelAborts ==
  /\ (canceled /\ handler = "select") ~> (handler = "returned")
  /\ [][Returns /\ tok = "watch" /\ ret' = "nil" => watchStopped']_vars
  /\ [][canceled /\ cancels' # cancels =>
          UNCHANGED <<clusterUnreachable, tok, listed, handler, ret, producer,
                      next, sent, canceled, clientDone, watchStopped>>]_vars

C24_Witness ==
  /\ tok = "watch" /\ handler = "returned" /\ ret = "nil"
  /\ canceled /\ ~clientDone /\ cancels = MaxCancels
  /\ watchStopped /\ Len(sent) = MaxEvents

(***************************************************************************)
(* getResources and invalidateResources (provider.go).  The read of        *)
(* k.resources under the read lock is one step; the fetch and the          *)
(* assignment under the write lock are one step, as the lock excludes      *)
(* every other access meanwhile.                                           *)
(***************************************************************************)
CacheInit ==
  /\ resources = 0 /\ fetches = 0 /\ invalidated = FALSE
  /\ at = [c \in Callers |-> "idle"]
  /\ rs = [c \in Callers |-> 0]
  /\ ProviderIdle /\ StackIdle /\ WorkspaceIdle /\ MergexIdle /\ RandomIdle
  /\ StreamIdle /\ ConfigIdle /\ LegacyIdle

\* RLock; rs := k.resources; RUnlock; if rs != nil { return rs, nil }
Probe(c) ==
  /\ at[c] = "idle"
  /\ rs' = [rs EXCEPT ![c] = resources]
  /\ at' = [at EXCEPT ![c] = IF resources # 0 THEN "returned" ELSE "miss"]
  /\ UNCHANGED <<resources, fetches, invalidated, outsideCache>>

\* Lock; rs, err := GetResourceSchemasForClient(...); k.resources = rs;
\* return k.resources, nil; or return nil, err.  k.resources is not read
\* again under the write lock.
Fill(c) ==
  /\ at[c] = "miss"
  /\ \E ok \in BOOLEAN :
       IF ok
         THEN /\ fetches' = fetches + 1
              /\ resources' = fetches + 1
              /\ rs' = [rs EXCEPT ![c] = fetches + 1]
              /\ at' = [at EXCEPT ![c] = "returned"]
         ELSE /\ at' = [at EXCEPT ![c] = "failed"]
              /\ UNCHANGED <<resources, fetches, rs>>
  /\ UNCHANGED <<invalidated, outsideCache>>

\* invalidateResources: Lock; k.resources = nil
InvalidateResources ==
  /\ ~invalidated
  /\ invalidated' = TRUE
  /\ resources' = 0
  /\ UNCHANGED <<fetches, at, rs, outsideCache>>

CacheNext ==
  \/ \E c \in Callers : Probe(c)
  \/ \E c \in Callers : Fill(c)
  \/ InvalidateResources

CacheSpec == CacheInit /\ [][CacheNext]_vars

\* C22: with no invalidateResources, the schemas are fetched at most once and
\* the callers that have returned a catalog have returned the same one.
C22_FilledOnce ==
  ~invalidated =>
    /\ fetches <= 1
    /\ \A c, d \in Callers :
         at[c] = "returned" /\ at[d] = "returned" => rs[c] = rs[d]

(***************************************************************************)
(* Configure (provider.go): the boolean settings.  A setting is named by   *)
(* the field of KubeProvider; serverSideApplyMode is read from the config  *)
(* variable enableServerSideApply, the others from the variable of their   *)
(* name, and each has its environment variable.                            *)
(***************************************************************************)
\* most variables that a request holds
MaxPresent == 2

\* most environment variables that are set
MaxSet == 1

\* the text of a variable: "true", any other text, or none
Texts == {"true", "false", Absent}

\* the variables (vars, or the environment) with at most n present
Assignments(n) ==
  {v \in [Settings -> Texts] : Cardinality({s \in Settings : v[s] # Absent}) <= n}

\* the closures deleteUnreachable(), enableDryRun(), ...: the provider's
\* variable when present, else the environment variable when set, else false
Enabled(v, s) ==
  IF v[s] # Absent THEN v[s] = "true"
  ELSE IF environ[s] # Absent THEN environ[s] = "true"
  ELSE FALSE

ConfigInit ==
  /\ flags = [s \in Settings |-> FALSE]
  /\ environ \in Assignments(MaxSet)
  /\ configured = NoRequest
  /\ ProviderIdle /\ StackIdle /\ WorkspaceIdle /\ MergexIdle /\ RandomIdle
  /\ StreamIdle /\ CacheIdle /\ LegacyIdle

\* Configure: `if deleteUnreachable() { k.deleteUnreachable = true }` and the
\* like, enableServerSideApply() setting enableDryRun too; the rest of
\* Configure then succeeds (ok) or returns an error
Configure ==
  \E v \in Assignments(MaxPresent), ok \in BOOLEAN :
    /\ flags' = [s \in Settings |->
                   \/ flags[s]
                   \/ Enabled(v, s)
                   \/ s = "enableDryRun" /\ Enabled(v, "serverSideApplyMode")]
    /\ configured' = IF ok THEN [configured EXCEPT !.ok = TRUE, !.vars = v]
                     ELSE [configured EXCEPT !.failed = TRUE]
    /\ UNCHANGED <<environ, outsideConfig>>

ConfigNext == Configure

ConfigSpec == ConfigInit /\ [][ConfigNext]_vars

\* the settings that the claim is about
Stated == Settings \ {"enableDryRun"}

\* C25: after successful Configure calls each boolean setting has the value
\* that the latest request determines (its variable compared to "true" when
\* present, else the environment variable when set, else false), and
\* enableDryRun is true whenever serverSideApplyMode is.
C25_LatestRequest ==
  /\ configured.ok /\ ~configured.failed =>
       \A s \in Stated : flags[s] = Enabled(configured.vars, s)
  /\ flags["serverSideApplyMode"] => flags["enableDryRun"]

(***************************************************************************)
(* legacyInitialAPIVersion (provider.go).  GetAnnotations returns a copy   *)
(* of the annotations of the config, nil when it has none.                 *)
(***************************************************************************)
\* metadata.AnnotationInitialAPIVersion
AnnotationInitialAPIVersion == "pulumi.com/initialAPIVersion"

AnnotationKeys == {AnnotationInitialAPIVersion, "app"}

AnnotationValues == {"apps/v1", "apps/v1beta1"}

\* the annotations of a config: at most one value per key
AnnotationMaps ==
  {a \in SUBSET (AnnotationKeys \X AnnotationValues) :
     \A x, y \in a : x[1] = y[1] => x = y}

HasAnnotation(a, key) == \E x \in a : x[1] = key

Annotation(a, key) == (CHOOSE x \in a : x[1] = key)[2]

\* annotations[key] = val
SetAnnotation(a, key, val) == {x \in a : x[1] # key} \cup {<<key, val>>}

\* the annotations of the config that legacyInitialAPIVersion returns
LegacyInitialAPIVersion(old, new) ==
  LET newAnnotations ==
        IF HasAnnotation(old, AnnotationInitialAPIVersion)
          THEN SetAnnotation(new, AnnotationInitialAPIVersion, Annotation(old, AnnotationInitialAPIVersion))
          ELSE new
  IN  IF Cardinality(new) > 0 THEN newAnnotations ELSE new

LegacyInit ==
  /\ oldConfig \in AnnotationMaps
  /\ newConfig \in AnnotationMaps
  /\ legacy = NotReturned
  /\ ProviderIdle /\ StackIdle /\ WorkspaceIdle /\ MergexIdle /\ RandomIdle
  /\ StreamIdle /\ CacheIdle /\ ConfigIdle

CallLegacyInitialAPIVersion ==
  /\ legacy = NotReturned
  /\ legacy' = [res |-> "ok",
                annotations |-> LegacyInitialAPIVersion(oldConfig, newConfig)]
  /\ UNCHANGED <<oldConfig, newConfig, outsideLegacy>>

LegacyNext == CallLegacyInitialAPIVersion

LegacySpec == LegacyInit /\ [][LegacyNext]_vars

\* C26: when the old config carries the annotation pulumi.com/initialAPIVersion
\* the returned config carries it with the same value, whether or not the new
\* config had annotations; when the old config lacks it the annotations of
\* the new config are returned unchanged.
C26_KeepsAnnotation ==
  legacy.res = "ok" =>
    IF HasAnnotation(oldConfig, AnnotationInitialAPIVersion)
      THEN <<AnnotationInitialAPIVersion, Annotation(oldConfig, AnnotationInitialAPIVersion)>>
             \in legacy.annotations
      ELSE legacy.annotations = newConfig

\* --- the assertion at the entry of addPatchValueToDiff
\* C27: on a non-empty patch and a non-nil old live state the assertion
\* v != nil || old != nil || oldInput != nil holds at every call of
\* addPatchValueToDiff that convertPatchToDiff makes, explicit nulls at keys
\* and elements absent from the old state and the old inputs included.
C27_AssertionHolds ==
  ~ContractViolated =>
    /\ status # "panic"
    /\ \A c \in calls : c.outcome # "panic"

\* --- the rendering of the paths of one computation
\* C28: two entries recorded in one computation under the same path string
\* are at the same path (keys that are empty or hold backslashes or reserved
\* characters included): the rendering is injective over the paths of the
\* computation and no entry of the diff overwrites the entry of another path.
C28_RenderingInjective ==
  \A c, d \in Recorded : c.pathStr = d.pathStr => c.path = d.path

\* --- Merge on keys that do not resolve
Packages == Variants \cup {"merge"}

Resolutions == {"known", "nil", "unknown", "error"}

\* arrays whose elements hold one value each
OneValueArrays ==
  UNION {[1..n -> [Key : Keys, Values : {<<"hostname1">>}]] : n \in 0..MaxItems}

MergeWaitInit ==
  /\ variant \in Packages
  /\ sma \in OneValueArrays
  /\ resolved \in [1..Len(sma) -> Resolutions]
  /\ merged = NotMerged
  /\ ProviderIdle /\ StackIdle /\ WorkspaceIdle /\ RandomIdle /\ KubeIdle

MergeWaitSpec == MergeWaitInit /\ [][MergexNext]_vars

\* C29: Merge returns on every input, those included whose key output never
\* resolves, resolves with an error or resolves to nil: the call neither
\* blocks in wg.Wait() nor panics in the callback.
C29_MergeReturns ==
  merged # NotMerged => merged.res = "ok"

====
